---- MODULE Spec2Model ----
(***************************************************************************)
(* Model of the AOCS validation engine (cli/src): the config loader        *)
(* (core/config.js, loadConfig), the file scanner (core/scanner.js), the   *)
(* rule registry (core/rules.js, languages/index.js), the orchestrator     *)
(* (index.js, validate) and the reporter (core/reporter.js, report).       *)
(*                                                                         *)
(* JavaScript values are records [t, s, a]: t is the type tag, s the text  *)
(* of a primitive, a the elements of an array.  Messages are strings.      *)
(***************************************************************************)
EXTENDS Integers, Sequences, FiniteSets, TLC

VARIABLES
  projectPath,  \* the argument of validate
  disk,         \* the state of <projectPath>/aocs.json
  tree,         \* the directories below projectPath
  contents,     \* the files below projectPath, as the rule checks read them
  pc,           \* the position of validate
  loaded,       \* what loadConfig yielded: {config, errors} or an exception
  files,        \* the list returned by scanFiles
  rules,        \* the rule set of the run
  idx,          \* the index in rules of the next rule to check
  results,      \* the result records pushed so far
  outcomes,     \* history: what each rule check called so far did
  calls,        \* history: the functions validate called so far
  ret,          \* the settled value of the promise returned by validate
  returned,     \* history: what the earlier calls of validate returned
  walk          \* the calls of walkDir in progress and what they did so far

vars == <<projectPath, disk, tree, contents, pc, loaded, files, rules, idx,
          results, outcomes, calls, ret, returned, walk>>

---------------------------------------------------------------------------
(* Bounds of the model.                                                    *)

\* at most this many optional contract fields are present at once
MaxOptionalPresent == 2

\* at most this many rule checks of one run behave other than "no findings"
MaxAbnormal == 2

\* the longest list of result records handed to report on its own
MaxResults == 3

\* validate is called at most this many times on a project
MaxCalls == 2

\* a generated project holds at most this many files
MaxFiles == 2

---------------------------------------------------------------------------
(* JavaScript values.                                                      *)

Undef == [t |-> "undefined", s |-> "undefined", a |-> <<>>]
Null == [t |-> "null", s |-> "null", a |-> <<>>]
Str(x) == [t |-> "string", s |-> x, a |-> <<>>]
Num(x) == [t |-> "number", s |-> x, a |-> <<>>]
Bool(x) == [t |-> "boolean", s |-> x, a |-> <<>>]
Arr(x) == [t |-> "array", s |-> "", a |-> x]

\* ToBoolean, as applied by `!v` and `v && ...`
Truthy(v) ==
  CASE v.t \in {"undefined", "null"} -> FALSE
    [] v.t = "string" -> v.s # ""
    [] v.t = "number" -> v.s # "0"
    [] v.t = "boolean" -> v.s = "true"
    [] OTHER -> TRUE

IsArray(v) == v.t = "array"

\* Array.prototype.includes on an array of string literals (strict equality)
Includes(literals, v) == v.t = "string" /\ v.s \in literals

RECURSIVE Join(_)
\* Array.prototype.join(', ') on a sequence of JavaScript values
Join(sq) ==
  IF sq = <<>> THEN ""
  ELSE IF Len(sq) = 1 THEN sq[1].s
  ELSE sq[1].s \o ", " \o Join(Tail(sq))

---------------------------------------------------------------------------
(* The contract file aocs.json and its parsed value.                       *)

FieldNames == {"aocsVersion", "languages", "mode", "modulePattern",
               "stateOwnership", "sideEffects", "namingSchema",
               "allowedPatterns", "forbiddenPatterns", "roles"}

OptionalFields == {"modulePattern", "stateOwnership", "sideEffects",
                   "namingSchema", "allowedPatterns", "forbiddenPatterns",
                   "roles"}

NoFields == [f \in FieldNames |-> Undef]

\* a parsed JSON document: its top-level type and, for an object, its fields
Parsed(top, fields) == [top |-> top, fields |-> fields]

\* the value null, as written `config: null` and as parsed from the text null
NullConfig == Parsed("null", NoFields)

\* property read config.<f>; undefined on a number, a string or an array
Get(config, f) == config.fields[f]

\* A path is the sequence of its components below "/"; a file or directory
\* name is the sequence of its dot-separated parts ("app.min.js" is
\* <<"app", "min", "js">>, ".git" is <<"", "git">>).
RECURSIVE JoinWith(_, _)
JoinWith(sq, sep) ==
  IF sq = <<>> THEN ""
  ELSE IF Len(sq) = 1 THEN sq[1]
  ELSE sq[1] \o sep \o JoinWith(Tail(sq), sep)

\* the text of a name
NameStr(parts) == JoinWith(parts, ".")

\* the text of an absolute path
PathStr(comps) == "/" \o JoinWith(comps, "/")

\* path.join(projectPath, 'aocs.json')
ConfigPath(path) == PathStr(Append(path, "aocs.json"))

\* what fs.readFile and JSON.parse make of the file: kind is "absent" (the
\* read fails), "badjson" (JSON.parse throws SyntaxError with message
\* parseError) or "json" (the text parses to `parsed`)
Disk(kind, parsed, parseError) ==
  [kind |-> kind, parsed |-> parsed, parseError |-> parseError]

AbsentDisk == Disk("absent", NullConfig, "")
BadJsonDisk == Disk("badjson", NullConfig, "Unexpected end of JSON input")
JsonDisk(parsed) == Disk("json", parsed, "")

---------------------------------------------------------------------------
(* loadConfig: each schema check takes the error list built so far and     *)
(* returns it with its own message pushed, as the statements of the        *)
(* function body do in sequence.                                           *)

CheckVersion(errors, config) ==
  IF ~Truthy(Get(config, "aocsVersion"))
  THEN Append(errors, "aocs.json missing required field: aocsVersion")
  ELSE errors

\* CheckLanguages as it would be without the test for an empty array
CheckLanguagesAllowEmpty(errors, config) ==
  IF ~Truthy(Get(config, "languages"))
  THEN Append(errors, "aocs.json missing required field: languages")
  ELSE IF ~IsArray(Get(config, "languages"))
  THEN Append(errors, "aocs.json: languages must be an array")
  ELSE errors

CheckLanguages(errors, config) ==
  IF ~Truthy(Get(config, "languages"))
  THEN Append(errors, "aocs.json missing required field: languages")
  ELSE IF ~IsArray(Get(config, "languages"))
  THEN Append(errors, "aocs.json: languages must be an array")
  ELSE IF Len(Get(config, "languages").a) = 0
  THEN Append(errors, "aocs.json: languages array cannot be empty")
  ELSE errors

CheckMode(errors, config) ==
  IF ~Truthy(Get(config, "mode"))
  THEN Append(errors, "aocs.json missing required field: mode")
  ELSE IF ~Includes({"lite", "strict"}, Get(config, "mode"))
  THEN Append(errors, "aocs.json: mode must be \"lite\" or \"strict\"")
  ELSE errors

CheckModulePattern(errors, config) ==
  IF Truthy(Get(config, "modulePattern"))
     /\ ~Includes({"agent-module", "traditional", "hybrid"},
                  Get(config, "modulePattern"))
  THEN Append(errors, "aocs.json: modulePattern must be one of: agent-module, traditional, hybrid")
  ELSE errors

CheckStateOwnership(errors, config) ==
  IF Truthy(Get(config, "stateOwnership"))
     /\ ~Includes({"local-only", "shared-explicit", "global-allowed"},
                  Get(config, "stateOwnership"))
  THEN Append(errors, "aocs.json: stateOwnership must be one of: local-only, shared-explicit, global-allowed")
  ELSE errors

CheckSideEffects(errors, config) ==
  IF Truthy(Get(config, "sideEffects"))
     /\ ~Includes({"explicit", "implicit-allowed"}, Get(config, "sideEffects"))
  THEN Append(errors, "aocs.json: sideEffects must be one of: explicit, implicit-allowed")
  ELSE errors

CheckNamingSchema(errors, config) ==
  IF Truthy(Get(config, "namingSchema"))
     /\ ~Includes({"verbNoun", "nounVerb", "free"}, Get(config, "namingSchema"))
  THEN Append(errors, "aocs.json: namingSchema must be one of: verbNoun, nounVerb, free")
  ELSE errors

CheckAllowedPatterns(errors, config) ==
  IF Truthy(Get(config, "allowedPatterns"))
     /\ ~IsArray(Get(config, "allowedPatterns"))
  THEN Append(errors, "aocs.json: allowedPatterns must be an array")
  ELSE errors

CheckForbiddenPatterns(errors, config) ==
  IF Truthy(Get(config, "forbiddenPatterns"))
     /\ ~IsArray(Get(config, "forbiddenPatterns"))
  THEN Append(errors, "aocs.json: forbiddenPatterns must be an array")
  ELSE errors

validRoles == {"pure-logic", "state-machine", "adapter", "ui-binding",
               "io-boundary", "config"}

\* config.roles.filter(r => !validRoles.includes(r))
InvalidRoles(roles) == SelectSeq(roles, LAMBDA r : ~Includes(validRoles, r))

CheckRoles(errors, config) ==
  IF Truthy(Get(config, "roles")) /\ ~IsArray(Get(config, "roles"))
  THEN Append(errors, "aocs.json: roles must be an array")
  ELSE IF Truthy(Get(config, "roles"))
          /\ Len(InvalidRoles(Get(config, "roles").a)) > 0
  THEN Append(errors, "aocs.json: invalid roles: "
                      \o Join(InvalidRoles(Get(config, "roles").a)))
  ELSE errors

\* the statements of loadConfig after JSON.parse, in source order
ValidateSchema(config) ==
  CheckRoles(
   CheckForbiddenPatterns(
    CheckAllowedPatterns(
     CheckNamingSchema(
      CheckSideEffects(
       CheckStateOwnership(
        CheckModulePattern(
         CheckMode(
          CheckLanguages(
           CheckVersion(<<>>, config), config), config), config), config),
       config), config), config), config), config)

\* what a call of loadConfig yields: threw is TRUE when an exception leaves
\* the function (the returned promise rejects), else {config, errors}
Returned(config, errors) == [threw |-> FALSE, config |-> config, errors |-> errors]
Threw == [threw |-> TRUE, config |-> NullConfig, errors |-> <<>>]

loadConfig(path, d) ==
  IF d.kind = "absent"
  THEN Returned(NullConfig, <<"aocs.json not found at " \o ConfigPath(path)>>)
  ELSE IF d.kind = "badjson"
  THEN Returned(NullConfig,
                <<"aocs.json contains invalid JSON: " \o d.parseError>>)
  ELSE IF d.parsed.top = "null"
  THEN Threw     \* config.aocsVersion on null: TypeError, not caught
  ELSE Returned(d.parsed, ValidateSchema(d.parsed))

---------------------------------------------------------------------------
(* Violations, result records and the reporter.                            *)

\* a violation {file, line, message}; file "" and line 0 stand for absent
Violation(file, line, message) ==
  [file |-> file, line |-> line, message |-> message]

\* a property that holds a list or is absent (undefined)
Absent == [def |-> FALSE, items |-> <<>>]
List(items) == [def |-> TRUE, items |-> items]

ResultRecord(id, name, level, violations) ==
  [id |-> id, name |-> name, level |-> level, violations |-> violations]

\* result.violations && result.violations.length > 0
HasViolations(result) ==
  result.violations.def /\ Len(result.violations.items) > 0

Counts(passed, failed, warnings) ==
  [passed |-> passed, failed |-> failed, warnings |-> warnings]

\* ReportStep as it would be if it counted violations instead of records
ReportStepPerViolation(acc, result) ==
  IF result.level = "error"
  THEN IF HasViolations(result)
       THEN Counts(acc.passed, acc.failed + Len(result.violations.items),
                   acc.warnings)
       ELSE Counts(acc.passed + 1, acc.failed, acc.warnings)
  ELSE IF result.level = "warn"
  THEN IF HasViolations(result)
       THEN Counts(acc.passed, acc.failed,
                   acc.warnings + Len(result.violations.items))
       ELSE acc
  ELSE acc

\* ReportStep as it would be if it did not look at the level of a record
ReportStepAnyLevel(acc, result) ==
  IF HasViolations(result)
  THEN Counts(acc.passed, acc.failed + 1, acc.warnings)
  ELSE Counts(acc.passed + 1, acc.failed, acc.warnings)

\* one iteration of the loop of report over the records (console output,
\* which the counts do not depend on, is left out)
ReportStep(acc, result) ==
  IF result.level = "error"
  THEN IF HasViolations(result)
       THEN Counts(acc.passed, acc.failed + 1, acc.warnings)
       ELSE Counts(acc.passed + 1, acc.failed, acc.warnings)
  ELSE IF result.level = "warn"
  THEN IF HasViolations(result)
       THEN Counts(acc.passed, acc.failed, acc.warnings + 1)
       ELSE acc
  ELSE acc

RECURSIVE ReportFrom(_, _)
ReportFrom(acc, rs) ==
  IF rs = <<>> THEN acc ELSE ReportFrom(ReportStep(acc, Head(rs)), Tail(rs))

report(rs) == ReportFrom(Counts(0, 0, 0), rs)

---------------------------------------------------------------------------
(* The rule registry.                                                      *)

\* a rule {id, name, level, check}; check is the name of the check function
\* (the name of U13 is written with "<=" for its less-or-equal sign)
Rule(id, name, level, check) ==
  [id |-> id, name |-> name, level |-> level, check |-> check]

universalRules == <<
  Rule("U8-repo-contract", "Repository contract (aocs.json) exists and valid",
       "error", "checkAocsJson"),
  Rule("U13-agent-readme", "Agent README exists and <=200 tokens",
       "warn", "checkAgentReadme"),
  Rule("U9-file-roles", "File roles declared (AOCS-ROLE)",
       "error", "checkFileRoles"),
  Rule("U2-contracts", "Function contracts (@contract)",
       "error", "checkContracts"),
  Rule("U10-hints", "Structured hints well-formed",
       "warn", "checkHints"),
  Rule("U12-forbidden", "Forbidden patterns not present",
       "error", "checkForbidden"),
  Rule("U1-module-manifest", "Module manifests (@module)",
       "warn", "checkModuleManifest") >>

javascriptRules ==
  << Rule("JS1-state-manifest", "State manifests for state-machine files",
          "warn", "checkStateManifest") >>

htmlRules ==
  << Rule("HTML1-interactive-ids",
          "Interactive elements have id or data-action",
          "warn", "checkInteractiveElements") >>

cssRules ==
  << Rule("CSS1-design-tokens", "Design tokens defined in :root",
          "warn", "checkDesignTokens") >>

\* String.prototype.toLowerCase on the language names of the model
ToLowerCase(x) ==
  CASE x = "JS" -> "js"
    [] x = "CSS" -> "css"
    [] OTHER -> x

\* names every object literal inherits from Object.prototype: a lookup
\* map[name] yields a truthy value that is neither an array nor iterable
InheritedKeys == {"constructor", "toString", "__proto__"}

\* lang.toLowerCase() throws TypeError unless lang is a string
HasToLowerCase(lang) == lang.t = "string"

\* languageModules[key]: "rules" with the rule list, "inherited" for a
\* member of Object.prototype, "none" for undefined
LanguageModule(key) ==
  CASE key \in {"javascript", "js", "typescript", "ts"} ->
         [kind |-> "rules", rules |-> javascriptRules]
    [] key = "html" -> [kind |-> "rules", rules |-> htmlRules]
    [] key = "css" -> [kind |-> "rules", rules |-> cssRules]
    [] key \in InheritedKeys -> [kind |-> "inherited", rules |-> <<>>]
    [] OTHER -> [kind |-> "none", rules |-> <<>>]

\* the value of a call that either returns `value` or throws
Value(v) == [threw |-> FALSE, value |-> v]
Thrown == [threw |-> TRUE, value |-> <<>>]

RECURSIVE LanguageRulesFrom(_, _)
\* the loop of loadLanguageRules: rules.push(...langRules) per language
LanguageRulesFrom(acc, langs) ==
  IF langs = <<>> THEN Value(acc)
  ELSE IF ~HasToLowerCase(Head(langs)) THEN Thrown
  ELSE LET m == LanguageModule(ToLowerCase(Head(langs).s))
       IN IF m.kind = "inherited" THEN Thrown  \* spread of a non-iterable
          ELSE LanguageRulesFrom(acc \o m.rules, Tail(langs))

loadLanguageRules(config) ==
  IF config.top = "null" \/ ~Truthy(Get(config, "languages"))
  THEN Value(<<>>)
  ELSE LanguageRulesFrom(<<>>, Get(config, "languages").a)

---------------------------------------------------------------------------
(* The file scanner.                                                       *)

\* langExtMap[key]: "exts" with the extensions, "inherited" for a member of
\* Object.prototype (truthy, without forEach), "none" for undefined
langExtMap(key) ==
  CASE key \in {"javascript", "js"} ->
         [kind |-> "exts", exts |-> {".js", ".mjs", ".cjs"}]
    [] key \in {"typescript", "ts"} -> [kind |-> "exts", exts |-> {".ts", ".tsx"}]
    [] key = "python" -> [kind |-> "exts", exts |-> {".py"}]
    [] key = "html" -> [kind |-> "exts", exts |-> {".html", ".htm"}]
    [] key = "css" -> [kind |-> "exts", exts |-> {".css"}]
    [] key = "go" -> [kind |-> "exts", exts |-> {".go"}]
    [] key = "rust" -> [kind |-> "exts", exts |-> {".rs"}]
    [] key = "java" -> [kind |-> "exts", exts |-> {".java"}]
    [] key \in InheritedKeys -> [kind |-> "inherited", exts |-> {}]
    [] OTHER -> [kind |-> "none", exts |-> {}]

\* skipDirs as it would be without node_modules
skipDirsWithoutNodeModules == {".git", "dist", "build", "coverage", ".next", "out"}

skipDirs == {"node_modules", ".git", "dist", "build", "coverage", ".next", "out"}

\* path.extname(name): the text from the last dot, "" when there is no dot
\* or the only dot is the first character
extname(parts) ==
  IF Len(parts) < 2 \/ (Len(parts) = 2 /\ parts[1] = "") THEN ""
  ELSE "." \o parts[Len(parts)]

\* name.endsWith('.min.js') || name.endsWith('.min.css')
IsMinified(parts) ==
  /\ Len(parts) >= 3
  /\ parts[Len(parts) - 1] = "min"
  /\ parts[Len(parts)] \in {"js", "css"}

\* name.startsWith('.')
StartsWithDot(parts) == Len(parts) >= 2 /\ parts[1] = ""

\* fullPath.includes('/test/fixtures/') on the text of an absolute path
InFixtures(comps) ==
  \E i \in 1..(Len(comps) - 2) : comps[i] = "test" /\ comps[i + 1] = "fixtures"

\* a directory entry: kind is "dir", "file" or "other" (neither isDirectory
\* nor isFile, such as a symbolic link)
Entry(name, kind) == [name |-> name, kind |-> kind]

\* a directory: its entries in readdir order; readdir throws when the
\* directory is not readable
Dir(readable, entries) == [readable |-> readable, entries |-> entries]

RECURSIVE walkDir(_, _, _, _)
RECURSIVE walkEntries(_, _, _, _, _)

RECURSIVE walkEntriesRelative(_, _, _, _, _)
\* walkEntries as it would be if the fixture test looked at the path below
\* the project root instead of the full path
walkEntriesRelative(fs, root, rel, extensions, entries) ==
  IF entries = <<>> THEN <<>>
  ELSE LET entry == Head(entries)
           relPath == Append(rel, NameStr(entry.name))
           fullPath == root \o relPath
           rest == walkEntriesRelative(fs, root, rel, extensions, Tail(entries))
       IN IF entry.kind = "dir"
          THEN IF InFixtures(relPath) THEN rest
               ELSE IF NameStr(entry.name) \notin skipDirs
                       /\ ~StartsWithDot(entry.name)
               THEN walkDir(fs, root, relPath, extensions) \o rest
               ELSE rest
          ELSE IF entry.kind = "file"
          THEN IF IsMinified(entry.name) THEN rest
               ELSE IF extname(entry.name) \in extensions
               THEN <<fullPath>> \o rest
               ELSE rest
          ELSE rest

\* the for loop of walkDir over the entries of root/rel
walkEntries(fs, root, rel, extensions, entries) ==
  IF entries = <<>> THEN <<>>
  ELSE LET entry == Head(entries)
           relPath == Append(rel, NameStr(entry.name))
           fullPath == root \o relPath
           rest == walkEntries(fs, root, rel, extensions, Tail(entries))
       IN IF entry.kind = "dir"
          THEN IF InFixtures(fullPath) THEN rest
               ELSE IF NameStr(entry.name) \notin skipDirs
                       /\ ~StartsWithDot(entry.name)
               THEN walkDir(fs, root, relPath, extensions) \o rest
               ELSE rest
          ELSE IF entry.kind = "file"
          THEN IF IsMinified(entry.name) THEN rest
               ELSE IF extname(entry.name) \in extensions
               THEN <<fullPath>> \o rest
               ELSE rest
          ELSE rest

\* walkDir(join(root, rel), extensions): a directory that is missing or not
\* readable makes readdir throw, which the catch turns into no results
walkDir(fs, root, rel, extensions) ==
  IF rel \notin DOMAIN fs \/ ~fs[rel].readable THEN <<>>
  ELSE walkEntries(fs, root, rel, extensions, fs[rel].entries)

RECURSIVE ExtensionsFrom(_, _)
\* the loop of scanFiles over config.languages, filling the Set extensions
ExtensionsFrom(acc, langs) ==
  IF langs = <<>> THEN Value(acc)
  ELSE IF ~HasToLowerCase(Head(langs)) THEN Thrown
  ELSE LET m == langExtMap(ToLowerCase(Head(langs).s))
       IN IF m.kind = "inherited" THEN Thrown  \* exts.forEach is not a function
          ELSE ExtensionsFrom(acc \cup m.exts, Tail(langs))

RECURSIVE WalkPerLanguage(_, _, _)
\* one walk of the project per declared language
WalkPerLanguage(fs, path, langs) ==
  IF langs = <<>> THEN <<>>
  ELSE walkDir(fs, path, <<>>, langExtMap(ToLowerCase(Head(langs).s)).exts)
       \o WalkPerLanguage(fs, path, Tail(langs))

\* scanFiles as it would be if it walked the project once per language
\* instead of once with the Set of all extensions
scanFilesPerLanguage(fs, path, config) ==
  IF config.top = "null" \/ ~Truthy(Get(config, "languages"))
  THEN Value(<<>>)
  ELSE LET e == ExtensionsFrom({}, Get(config, "languages").a)
       IN IF e.threw THEN Thrown
          ELSE Value(WalkPerLanguage(fs, path, Get(config, "languages").a))

scanFiles(fs, path, config) ==
  IF config.top = "null" \/ ~Truthy(Get(config, "languages"))
  THEN Value(<<>>)
  ELSE LET e == ExtensionsFrom({}, Get(config, "languages").a)
       IN IF e.threw THEN Thrown
          ELSE IF e.value = {} THEN Value(<<>>)
          ELSE Value(walkDir(fs, path, <<>>, e.value))

\* a call of walkDir in progress: the directory, by its path below the
\* project root, whether readdir has returned its entries and the number
\* of entries the loop is done with
Frame(dir, read, done) == [dir |-> dir, read |-> read, done |-> done]

\* the state of a scan: the calls of walkDir in progress, innermost last,
\* the extensions they look for, the directories readdir was called on and
\* the directory entries the loops went through
Walk(stack, extensions, visited, seen) ==
  [stack |-> stack, extensions |-> extensions, visited |-> visited,
   seen |-> seen]

NotWalking == Walk(<<>>, {}, <<>>, <<>>)

---------------------------------------------------------------------------
(* Rule checks.  validate sees of a check only what the call does: it      *)
(* returns a value or throws one.                                          *)

\* kind "return": the check returns {violations, warnings}, each a list or
\*   absent; "returnNullish": it returns undefined or null;
\*   "throwError": it throws an Error with the given message;
\*   "throwNoMessage": it throws a value without a message property;
\*   "throwNullish": it throws undefined or null (a promise rejected
\*   without a reason)
Outcome(kind, violations, warnings, message) ==
  [kind |-> kind, violations |-> violations, warnings |-> warnings,
   message |-> message]

Return(violations, warnings) == Outcome("return", violations, warnings, "")

\* checkAocsJson(projectPath, config, files)
checkAocsJson(config) ==
  Return(List(IF config.top = "null"
              THEN <<Violation("", 0, "aocs.json missing or invalid")>>
              ELSE <<>>),
         Absent)

V1 == Violation("src/a.js", 1, "first finding")
V2 == Violation("src/a.js", 7, "second finding")
W1 == Violation("", 0, "first warning")

\* a check that finds nothing
NoFindings == Return(List(<<>>), Absent)

\* the other behaviours of a check
AbnormalOutcomes ==
  { Return(List(<<V1, V2>>), Absent),
    Return(List(<<V1>>), List(<<W1>>)),
    Return(Absent, List(<<W1>>)),
    Return(Absent, List(<<>>)),
    Outcome("returnNullish", Absent, Absent, ""),
    Outcome("throwError", Absent, Absent, "EACCES: permission denied"),
    Outcome("throwNoMessage", Absent, Absent, ""),
    Outcome("throwNullish", Absent, Absent, "") }

\* the number of checks so far that did not simply find nothing
Abnormal(os) == Cardinality({i \in 1..Len(os) : os[i] # NoFindings})

\* what rule.check(projectPath, config, files) can do
CheckOutcomes(rule, config, os) ==
  IF rule.check = "checkAocsJson" THEN {checkAocsJson(config)}
  ELSE {NoFindings} \cup
       (IF Abnormal(os) < MaxAbnormal THEN AbnormalOutcomes ELSE {})

\* the record pushed by the catch block for a caught error
CaughtRecord(rule, message) ==
  ResultRecord(rule.id, rule.name, "error",
               List(<<Violation("", 0, "Check failed: " \o message)>>))

\* RunRule as it would be if the warnings were merged into the primary
\* record instead of pushed as a record of their own
RunRuleMerged(rule, o) ==
  CASE o.kind = "return" ->
         Value(<<ResultRecord(rule.id, rule.name, rule.level,
                              List(o.violations.items \o o.warnings.items))>>)
    [] o.kind = "returnNullish" ->
         Value(<<CaughtRecord(rule,
            "Cannot read properties of undefined (reading 'violations')")>>)
    [] o.kind = "throwError" -> Value(<<CaughtRecord(rule, o.message)>>)
    [] o.kind = "throwNoMessage" -> Value(<<CaughtRecord(rule, "undefined")>>)
    [] OTHER -> Thrown

\* the body of the rule loop of validate for one rule: the records it
\* pushes, or threw when an exception leaves the catch block
RunRule(rule, o) ==
  CASE o.kind = "return" ->
         LET entry == ResultRecord(rule.id, rule.name, rule.level,
                                   List(o.violations.items))
         IN IF o.warnings.def /\ Len(o.warnings.items) > 0
            THEN Value(<<entry,
                         ResultRecord(rule.id \o "-warnings",
                                      rule.name \o " (warnings)", "warn",
                                      o.warnings)>>)
            ELSE Value(<<entry>>)
    [] o.kind = "returnNullish" ->
         Value(<<CaughtRecord(rule,
            "Cannot read properties of undefined (reading 'violations')")>>)
    [] o.kind = "throwError" -> Value(<<CaughtRecord(rule, o.message)>>)
    [] o.kind = "throwNoMessage" -> Value(<<CaughtRecord(rule, "undefined")>>)
    [] OTHER -> Thrown   \* err.message on undefined or null: TypeError

---------------------------------------------------------------------------
(* The built-in rule checks.  A check reads the files of the list it is    *)
(* given; of the text of a file the model keeps what the body of each      *)
(* check's file loop finds in it.                                          *)

\* what the body of a file loop finds: the line and the message of a
\* violation it pushes
Finding(line, message) == [line |-> line, message |-> message]

\* the checks that loop over the scanned files and return {violations}
FileChecks == {"checkFileRoles", "checkContracts", "checkHints",
               "checkModuleManifest", "checkStateManifest",
               "checkInteractiveElements", "checkDesignTokens"}

\* the keys of patternCheckers
patternCheckers == {"dynamic-eval", "dynamic-import", "reflection",
                    "implicit-global"}

\* patternCheckers[pattern].message
CheckerMessage(pattern) ==
  CASE pattern = "dynamic-eval" ->
         "Dynamic eval or Function constructor detected"
    [] pattern = "dynamic-import" -> "Dynamic import() detected"
    [] pattern = "reflection" -> "Reflection API usage detected"
    [] OTHER -> "Possible implicit global assignment (use const/let/var)"

\* the file checks whose loop body the model does not look into
TextChecks == FileChecks \ {"checkFileRoles", "checkModuleManifest"}

\* a line of a text, as the checks read it.  lead: the comment opener that
\* line.trim() starts with ("//", "/*", "*", "#", "<!--"), "" for any other
\* line; role: the word after 'AOCS-ROLE:' where the line holds that text
\* right after its lead, "" where it does not; tags: the manifest tags the
\* line includes; export: the line includes 'export '; hits: the keys of
\* patternCheckers whose pattern matches the line; closes: the line
\* includes '-->' after all that
Line(lead, role, tags, export, hits, closes) ==
  [lead |-> lead, role |-> role, tags |-> tags, export |-> export,
   hits |-> hits, closes |-> closes]

\* the text of a file: whether readFile succeeds; lines: content.split('\n');
\* found[c]: the findings of the loop body of check c, in line order, for
\* the checks whose body the model does not look into; tokens: the number
\* of whitespace-separated tokens
FileText(readable, lines, found, tokens) ==
  [readable |-> readable, lines |-> lines, found |-> found, tokens |-> tokens]

\* lines.slice(0, n)
slice(lines, n) == SubSeq(lines, 1, IF Len(lines) < n THEN Len(lines) ELSE n)

\* the first index of 1..n at which P holds, 0 when there is none
FirstIndex(n, P(_)) ==
  IF \E i \in 1..n : P(i)
  THEN CHOOSE i \in 1..n : P(i) /\ \A j \in 1..(i - 1) : ~P(j)
  ELSE 0

\* what checkFileRoles knows of the role of a file
Role(found, line, value) == [found |-> found, line |-> line, value |-> value]

\* extractRole(line, ext): the four patterns want 'AOCS-ROLE:' after '//',
\* '#', '<!--' or '/*', whatever the extension; "" stands for null
extractRole(line) ==
  IF line.lead \in {"//", "#", "<!--", "/*"} THEN line.role ELSE ""

\* the HTML branch of checkFileRoles: AOCS-ROLE anywhere in the first
\* comment block <!-- ... --> of the header; the line reported is the line
\* of the first 'AOCS-ROLE:' of the header
HtmlRole(lines) ==
  LET first == FirstIndex(Len(lines), LAMBDA i : lines[i].lead = "<!--")
      last == FirstIndex(Len(lines), LAMBDA i : i >= first /\ lines[i].closes)
      at == FirstIndex(Len(lines),
                       LAMBDA i : i >= first /\ i <= last /\ lines[i].role # "")
  IN IF first = 0 \/ last = 0 \/ at = 0 THEN Role(FALSE, 0, "")
     ELSE Role(TRUE,
               FirstIndex(Len(lines), LAMBDA i : lines[i].role # ""),
               lines[at].role)

\* the line-by-line loop of checkFileRoles
LineRole(lines) ==
  LET at == FirstIndex(Len(lines), LAMBDA i : extractRole(lines[i]) # "")
  IN IF at = 0 THEN Role(FALSE, 0, "") ELSE Role(TRUE, at, lines[at].role)

\* (ext === '.html' || ext === '.htm')
IsHtml(ext) == ext \in {".html", ".htm"}

\* const maxLines = (ext === '.html' || ext === '.htm') ? 15 : 5
maxLines(ext) == IF IsHtml(ext) THEN 15 ELSE 5

\* the body of the file loop of checkFileRoles
RoleFindings(ext, text) ==
  LET lines == slice(text.lines, maxLines(ext))
      html == IF IsHtml(ext) THEN HtmlRole(lines) ELSE Role(FALSE, 0, "")
      role == IF html.found THEN html ELSE LineRole(lines)
  IN IF ~role.found
     THEN <<Finding(1, "Missing AOCS-ROLE declaration in first "
                       \o ToString(maxLines(ext)) \o " lines")>>
     ELSE IF role.value \notin validRoles
     THEN <<Finding(role.line,
                    "Invalid role \"" \o role.value \o "\". Must be one of: "
                    \o "pure-logic, state-machine, adapter, ui-binding, "
                    \o "io-boundary, config")>>
     ELSE <<>>

\* ManifestFindings as it would be if the whole text were searched for the
\* tags instead of its first 20 lines
ManifestFindingsWholeText(text) ==
  LET hasModule == \E i \in 1..Len(text.lines) : "@module:" \in text.lines[i].tags
      hasExports == \E i \in 1..Len(text.lines) : "@exports:" \in text.lines[i].tags
      hasExportKeyword == \E i \in 1..Len(text.lines) : text.lines[i].export
  IN (IF hasExportKeyword /\ ~hasModule
      THEN <<Finding(1, "File has exports but missing @module declaration")>>
      ELSE <<>>)
     \o (IF hasModule /\ ~hasExports
         THEN <<Finding(1, "Module declaration present but missing @exports")>>
         ELSE <<>>)

\* the body of the file loop of checkModuleManifest
ManifestFindings(text) ==
  LET lines == slice(text.lines, 20)
      hasModule == \E i \in 1..Len(lines) : "@module:" \in lines[i].tags
      hasExports == \E i \in 1..Len(lines) : "@exports:" \in lines[i].tags
      hasExportKeyword == \E i \in 1..Len(text.lines) : text.lines[i].export
  IN (IF hasExportKeyword /\ ~hasModule
      THEN <<Finding(1, "File has exports but missing @module declaration")>>
      ELSE <<>>)
     \o (IF hasModule /\ ~hasExports
         THEN <<Finding(1, "Module declaration present but missing @exports")>>
         ELSE <<>>)

\* the findings of the loop body of a check in the text of the file named
\* parts
Findings(check, parts, text) ==
  CASE check = "checkFileRoles" -> RoleFindings(extname(parts), text)
    [] check = "checkModuleManifest" -> ManifestFindings(text)
    [] OTHER -> text.found[check]

\* lines of source text
Blank == Line("", "", {}, FALSE, {}, FALSE)
RoleLine(lead, role) == Line(lead, role, {}, FALSE, {}, FALSE)
TagLine(tag) == Line("//", "", {tag}, FALSE, {}, FALSE)
ExportLine == Line("", "", {}, TRUE, {}, FALSE)
HitLine(lead, pattern) == Line(lead, "", {}, FALSE, {pattern}, FALSE)

\* n blank lines
Blanks(n) == [i \in 1..n |-> Blank]

NoneFound == [c \in TextChecks |-> <<>>]

\* a text in which no check finds anything
CleanText ==
  FileText(TRUE,
           << RoleLine("//", "adapter"), TagLine("@module:"),
              TagLine("@exports:"), Blank, ExportLine >>,
           NoneFound, 40)

\* the findings of the checks of TextChecks in a text that breaks every rule
AllFound ==
  [c \in TextChecks |->
     CASE c = "checkContracts" ->
            <<Finding(3, "Exported function missing @contract annotation"),
              Finding(9, "Exported function missing @contract annotation")>>
       [] c = "checkHints" ->
            <<Finding(2, "AOCS-PURE hint is malformed or empty (must have format: AOCS-PURE: value)")>>
       [] c = "checkStateManifest" ->
            <<Finding(1, "state-machine role requires @state-manifest declaration")>>
       [] c = "checkInteractiveElements" ->
            <<Finding(4, "Interactive element should have id or data-action attribute")>>
       [] OTHER ->
            <<Finding(1, "CSS file should define design tokens in :root")>>]

\* a text in which every check finds something, with more than 200 tokens
DirtyText ==
  FileText(TRUE,
           << Blank, Line("//", "", {}, FALSE, {}, FALSE), ExportLine, Blank,
              HitLine("", "dynamic-eval"), HitLine("", "dynamic-eval"),
              HitLine("", "implicit-global"), HitLine("//", "dynamic-eval"),
              ExportLine >>,
           AllFound, 250)

\* the path of a file below the project root, one string per component
Rel(root, file) == SubSeq(file, Len(root) + 1, Len(file))

\* path.relative(projectPath, file) for a file below projectPath
relative(root, file) == JoinWith(Rel(root, file), "/")

\* readFile(file, 'utf-8') succeeds
CanRead(texts, rel) == rel \in DOMAIN texts /\ texts[rel].readable

\* the name, in parts, of the directory entry at the path rel
EntryName(fs, rel) ==
  LET es == fs[SubSeq(rel, 1, Len(rel) - 1)].entries
  IN es[CHOOSE i \in 1..Len(es) : NameStr(es[i].name) = rel[Len(rel)]].name

\* the extensions of the files.filter of checkContracts, checkForbidden and
\* checkModuleManifest
jsExtensions == {".js", ".mjs", ".cjs", ".ts", ".tsx"}

\* the files.filter of a check, on the name of the file: extname for the
\* JS/TS checks, endsWith for the HTML and CSS checks, none for the others
Selected(check, parts) ==
  CASE check \in {"checkContracts", "checkForbidden", "checkModuleManifest"} ->
         extname(parts) \in jsExtensions
    [] check = "checkInteractiveElements" ->
         Len(parts) >= 2 /\ parts[Len(parts)] \in {"html", "htm"}
    [] check = "checkDesignTokens" ->
         Len(parts) >= 2 /\ parts[Len(parts)] = "css"
    [] OTHER -> TRUE

\* violations.push({file: relative(projectPath, file), line, message}) for
\* each finding of a file
Pushed(root, file, findings) ==
  [i \in 1..Len(findings) |->
     Violation(relative(root, file), findings[i].line, findings[i].message)]

RECURSIVE FileLoopAborting(_, _, _, _, _)
\* FileLoop as it would be with the try block around the whole loop: the
\* first file that cannot be read ends the loop
FileLoopAborting(check, fs, root, fileList, texts) ==
  IF fileList = <<>> THEN <<>>
  ELSE LET file == Head(fileList)
           rel == Rel(root, file)
       IN IF ~Selected(check, EntryName(fs, rel))
          THEN FileLoopAborting(check, fs, root, Tail(fileList), texts)
          ELSE IF ~CanRead(texts, rel) THEN <<>>
          ELSE Pushed(root, file, Findings(check, EntryName(fs, rel), texts[rel]))
               \o FileLoopAborting(check, fs, root, Tail(fileList), texts)

RECURSIVE FileLoop(_, _, _, _, _)
\* for (const file of <filtered files>) { try { readFile ... push } catch {} }
FileLoop(check, fs, root, fileList, texts) ==
  IF fileList = <<>> THEN <<>>
  ELSE LET file == Head(fileList)
           rel == Rel(root, file)
           rest == FileLoop(check, fs, root, Tail(fileList), texts)
       IN IF ~Selected(check, EntryName(fs, rel)) THEN rest
          ELSE IF ~CanRead(texts, rel) THEN rest
          ELSE Pushed(root, file, Findings(check, EntryName(fs, rel), texts[rel])) \o rest

checkFileRoles(fs, root, fileList, texts) ==
  Return(List(FileLoop("checkFileRoles", fs, root, fileList, texts)), Absent)

checkContracts(fs, root, fileList, texts) ==
  Return(List(FileLoop("checkContracts", fs, root, fileList, texts)), Absent)

checkHints(fs, root, fileList, texts) ==
  Return(List(FileLoop("checkHints", fs, root, fileList, texts)), Absent)

checkModuleManifest(fs, root, fileList, texts) ==
  Return(List(FileLoop("checkModuleManifest", fs, root, fileList, texts)),
         Absent)

checkStateManifest(fs, root, fileList, texts) ==
  Return(List(FileLoop("checkStateManifest", fs, root, fileList, texts)),
         Absent)

checkInteractiveElements(fs, root, fileList, texts) ==
  Return(List(FileLoop("checkInteractiveElements", fs, root, fileList, texts)),
         Absent)

checkDesignTokens(fs, root, fileList, texts) ==
  Return(List(FileLoop("checkDesignTokens", fs, root, fileList, texts)),
         Absent)

\* the name of the agent README, in parts
ReadmeName == <<"README", "agent", "md">>

\* checkAgentReadme: the README is read at join(projectPath,
\* 'README.agent.md'), whatever the file list holds
checkAgentReadme(texts) ==
  LET rel == <<NameStr(ReadmeName)>>
  IN Return(List(
       IF ~CanRead(texts, rel)
       THEN <<Violation("", 0, "README.agent.md not found")>>
       ELSE IF texts[rel].tokens > 200
       THEN <<Violation("README.agent.md", 0,
                        "Token count " \o ToString(texts[rel].tokens)
                        \o " exceeds recommended 200 tokens")>>
       ELSE <<>>), Absent)

\* the violations and warnings of checkForbidden so far
Forbidden(violations, warnings) ==
  [violations |-> violations, warnings |-> warnings]

\* `No checker for forbidden pattern: ${pattern}`
NoChecker(pattern) == "No checker for forbidden pattern: " \o pattern.s

\* line.trim().startsWith('//') || ...startsWith('/*') || ...startsWith('*')
IsComment(line) == line.lead \in {"//", "/*", "*"}

\* the numbers of the lines on which checker.pattern.test(line) is reached
\* and succeeds
LineHits(pattern, lines) ==
  SelectSeq([i \in 1..Len(lines) |-> i],
            LAMBDA i : ~IsComment(lines[i]) /\ pattern \in lines[i].hits)

\* w.message.includes(`No checker for forbidden pattern: ${pattern}`): the
\* message holds that text when it was made for the same name or for a name
\* that starts with it; of the names of the model only 'no-such' starts
\* another, 'no-such-pattern'
MessageIncludes(message, pattern) ==
  \/ message = NoChecker(pattern)
  \/ pattern.s = "no-such" /\ message = NoChecker(Str("no-such-pattern"))

RECURSIVE PatternLoop(_, _, _, _, _)
\* for (const pattern of config.forbiddenPatterns) on the lines of one file.
\* A pattern that names a member of Object.prototype yields a checker
\* without a pattern: checker.pattern.test throws on the first line that is
\* not skipped as a comment and the catch block of the file ends the loop.
PatternLoop(acc, patterns, root, file, text) ==
  IF patterns = <<>> THEN acc
  ELSE LET pattern == Head(patterns)
       IN IF pattern.t = "string" /\ pattern.s \in InheritedKeys
          THEN IF \E i \in 1..Len(text.lines) : ~IsComment(text.lines[i])
               THEN acc
               ELSE PatternLoop(acc, Tail(patterns), root, file, text)
          ELSE IF ~(pattern.t = "string" /\ pattern.s \in patternCheckers)
          THEN PatternLoop(
                 Forbidden(acc.violations,
                   IF \E i \in 1..Len(acc.warnings) :
                        MessageIncludes(acc.warnings[i].message, pattern)
                   THEN acc.warnings
                   ELSE Append(acc.warnings,
                               Violation("", 0, NoChecker(pattern)))),
                 Tail(patterns), root, file, text)
          ELSE PatternLoop(
                 Forbidden(acc.violations \o
                   Pushed(root, file,
                     [i \in 1..Len(LineHits(pattern.s, text.lines)) |->
                        Finding(LineHits(pattern.s, text.lines)[i],
                                CheckerMessage(pattern.s))]),
                   acc.warnings),
                 Tail(patterns), root, file, text)

RECURSIVE ForbiddenLoop(_, _, _, _, _, _)
\* for (const file of jsFiles) { try { ... } catch {} } of checkForbidden
ForbiddenLoop(acc, patterns, fs, root, fileList, texts) ==
  IF fileList = <<>> THEN acc
  ELSE LET file == Head(fileList)
           rel == Rel(root, file)
       IN IF ~Selected("checkForbidden", EntryName(fs, rel))
             \/ ~CanRead(texts, rel)
          THEN ForbiddenLoop(acc, patterns, fs, root, Tail(fileList), texts)
          ELSE ForbiddenLoop(PatternLoop(acc, patterns, root, file, texts[rel]),
                             patterns, fs, root, Tail(fileList), texts)

checkForbidden(fs, root, config, fileList, texts) ==
  IF config.top = "null" \/ ~Truthy(Get(config, "forbiddenPatterns"))
  THEN Return(List(<<>>), List(<<>>))
  ELSE LET r == ForbiddenLoop(Forbidden(<<>>, <<>>),
                              Get(config, "forbiddenPatterns").a,
                              fs, root, fileList, texts)
       IN Return(List(r.violations), List(r.warnings))

\* rule.check(projectPath, config, files) for the checks of the registry
BuiltinCheck(check, fs, root, config, fileList, texts) ==
  CASE check = "checkAocsJson" -> checkAocsJson(config)
    [] check = "checkAgentReadme" -> checkAgentReadme(texts)
    [] check = "checkFileRoles" -> checkFileRoles(fs, root, fileList, texts)
    [] check = "checkContracts" -> checkContracts(fs, root, fileList, texts)
    [] check = "checkHints" -> checkHints(fs, root, fileList, texts)
    [] check = "checkForbidden" ->
         checkForbidden(fs, root, config, fileList, texts)
    [] check = "checkModuleManifest" ->
         checkModuleManifest(fs, root, fileList, texts)
    [] check = "checkStateManifest" ->
         checkStateManifest(fs, root, fileList, texts)
    [] check = "checkInteractiveElements" ->
         checkInteractiveElements(fs, root, fileList, texts)
    [] OTHER -> checkDesignTokens(fs, root, fileList, texts)

---------------------------------------------------------------------------
(* validate.                                                               *)

\* errors.map(e => ({ message: e }))
RECURSIVE MapMessages(_)
MapMessages(errors) ==
  IF errors = <<>> THEN <<>>
  ELSE <<Violation("", 0, Head(errors))>> \o MapMessages(Tail(errors))

\* ConfigResult as it would be if only the first error were reported
ConfigResultFirstOnly(errors) ==
  ResultRecord("config-load", "Configuration loading", "error",
               List(<<Violation("", 0, Head(errors))>>))

ConfigResult(errors) ==
  ResultRecord("config-load", "Configuration loading", "error",
               List(MapMessages(errors)))

NotSettled == [status |-> "pending", passed |-> 0, failed |-> 0,
               warnings |-> 0, results |-> <<>>]
Rejected == [status |-> "rejected", passed |-> 0, failed |-> 0,
             warnings |-> 0, results |-> <<>>]

\* { ...summary, results }
Summary(counts, rs) ==
  [status |-> "resolved", passed |-> counts.passed, failed |-> counts.failed,
   warnings |-> counts.warnings, results |-> rs]

\* const { config, errors } = await loadConfig(projectPath)
LoadConfig ==
  /\ pc = "start"
  /\ LET r == loadConfig(projectPath, disk)
     IN /\ loaded' = r
        /\ pc' = IF r.threw THEN "rejected" ELSE "loaded"
        /\ ret' = IF r.threw THEN Rejected ELSE ret
  /\ calls' = Append(calls, "loadConfig")
  /\ UNCHANGED <<walk, projectPath, disk, tree, contents, returned, files, rules, idx, results, outcomes>>

\* if (errors.length > 0) { ... return { ...summary, results: [configResult] } }
ConfigFail ==
  /\ pc = "loaded"
  /\ Len(loaded.errors) > 0
  /\ results' = <<ConfigResult(loaded.errors)>>
  /\ ret' = Summary(report(results'), results')
  /\ calls' = Append(calls, "report")
  /\ pc' = "done"
  /\ UNCHANGED <<walk, projectPath, disk, tree, contents, returned, loaded, files, rules, idx, outcomes>>

\* ScanFiles as it would be if validate did not return on config errors
ScanFilesDespiteErrors ==
  /\ pc = "loaded"
  /\ LET r == scanFiles(tree, projectPath, loaded.config)
     IN /\ files' = IF r.threw THEN files ELSE r.value
        /\ pc' = IF r.threw THEN "rejected" ELSE "scanned"
        /\ ret' = IF r.threw THEN Rejected ELSE ret
  /\ calls' = Append(calls, "scanFiles")
  /\ UNCHANGED <<walk, projectPath, disk, tree, contents, returned, loaded, rules,
                 idx, results, outcomes>>

\* const files = await scanFiles(projectPath, config)
ScanFiles ==
  /\ pc = "loaded"
  /\ Len(loaded.errors) = 0
  /\ LET r == scanFiles(tree, projectPath, loaded.config)
     IN /\ files' = IF r.threw THEN files ELSE r.value
        /\ pc' = IF r.threw THEN "rejected" ELSE "scanned"
        /\ ret' = IF r.threw THEN Rejected ELSE ret
  /\ calls' = Append(calls, "scanFiles")
  /\ UNCHANGED <<walk, projectPath, disk, tree, contents, returned, loaded, rules, idx, results, outcomes>>

\* CollectRules as it would be if the language rules were pushed onto the
\* rule list of the call before instead of a fresh copy of universalRules
CollectRulesKeeping ==
  /\ pc = "scanned"
  /\ LET r == loadLanguageRules(loaded.config)
     IN /\ rules' = IF r.threw THEN rules
                    ELSE (IF rules = <<>> THEN universalRules ELSE rules)
                         \o r.value
        /\ pc' = IF r.threw THEN "rejected" ELSE "running"
        /\ ret' = IF r.threw THEN Rejected ELSE ret
  /\ idx' = 1
  /\ results' = <<>>
  /\ calls' = Append(calls, "loadLanguageRules")
  /\ UNCHANGED <<walk, projectPath, disk, tree, contents, returned, loaded, files,
                 outcomes>>

\* CollectRules as it would be if the language rules were put in front of
\* the universal rules
CollectRulesLanguageFirst ==
  /\ pc = "scanned"
  /\ LET r == loadLanguageRules(loaded.config)
     IN /\ rules' = IF r.threw THEN rules ELSE r.value \o universalRules
        /\ pc' = IF r.threw THEN "rejected" ELSE "running"
        /\ ret' = IF r.threw THEN Rejected ELSE ret
  /\ idx' = 1
  /\ results' = <<>>
  /\ calls' = Append(calls, "loadLanguageRules")
  /\ UNCHANGED <<walk, projectPath, disk, tree, contents, returned, loaded, files,
                 outcomes>>

\* const rules = [...universalRules, ...loadLanguageRules(config)]
CollectRules ==
  /\ pc = "scanned"
  /\ LET r == loadLanguageRules(loaded.config)
     IN /\ rules' = IF r.threw THEN rules ELSE universalRules \o r.value
        /\ pc' = IF r.threw THEN "rejected" ELSE "running"
        /\ ret' = IF r.threw THEN Rejected ELSE ret
  /\ idx' = 1
  /\ results' = <<>>
  /\ calls' = Append(calls, "loadLanguageRules")
  /\ UNCHANGED <<walk, projectPath, disk, tree, contents, returned, loaded, files, outcomes>>

\* one iteration of for (const rule of rules) { try ... catch ... }
RunCheck ==
  /\ pc = "running"
  /\ idx <= Len(rules)
  /\ \E o \in CheckOutcomes(rules[idx], loaded.config, outcomes) :
       LET r == RunRule(rules[idx], o)
       IN /\ outcomes' = Append(outcomes, o)
          /\ results' = IF r.threw THEN results ELSE results \o r.value
          /\ pc' = IF r.threw THEN "rejected" ELSE pc
          /\ ret' = IF r.threw THEN Rejected ELSE ret
  /\ idx' = idx + 1
  /\ calls' = Append(calls, rules[idx].check)
  /\ UNCHANGED <<walk, projectPath, disk, tree, contents, returned, loaded, files, rules>>

\* const summary = report(results); return { ...summary, results }
Report ==
  /\ pc = "running"
  /\ idx > Len(rules)
  /\ ret' = Summary(report(results), results)
  /\ calls' = Append(calls, "report")
  /\ pc' = "done"
  /\ UNCHANGED <<walk, projectPath, disk, tree, contents, returned, loaded, files, rules, idx, results,
                 outcomes>>

\* report(results) called on its own
ReportCall ==
  /\ pc = "report"
  /\ ret' = Summary(report(results), results)
  /\ calls' = Append(calls, "report")
  /\ pc' = "done"
  /\ UNCHANGED <<walk, projectPath, disk, tree, contents, returned, loaded, files, rules, idx, results,
                 outcomes>>

\* RunBuiltinCheck as it would be if the rule loop ran no check on an empty
\* file list
RunBuiltinCheckUnlessEmpty ==
  /\ pc = "running"
  /\ idx <= Len(rules)
  /\ LET o == BuiltinCheck(rules[idx].check, tree, projectPath, loaded.config,
                           files, contents)
         r == RunRule(rules[idx], o)
     IN /\ outcomes' = IF files = <<>> THEN outcomes ELSE Append(outcomes, o)
        /\ results' = IF r.threw \/ files = <<>> THEN results
                      ELSE results \o r.value
        /\ pc' = IF r.threw THEN "rejected" ELSE pc
        /\ ret' = IF r.threw THEN Rejected ELSE ret
  /\ idx' = idx + 1
  /\ calls' = Append(calls, rules[idx].check)
  /\ UNCHANGED <<walk, projectPath, disk, tree, contents, returned, loaded, files,
                 rules>>

\* RunBuiltinCheck as it would be if the JS/TS checks narrowed the file list
\* they are given in place instead of filtering it into a list of their own
RunBuiltinCheckFilteringInPlace ==
  /\ pc = "running"
  /\ idx <= Len(rules)
  /\ LET o == BuiltinCheck(rules[idx].check, tree, projectPath, loaded.config,
                           files, contents)
         r == RunRule(rules[idx], o)
     IN /\ outcomes' = Append(outcomes, o)
        /\ results' = IF r.threw THEN results ELSE results \o r.value
        /\ pc' = IF r.threw THEN "rejected" ELSE pc
        /\ ret' = IF r.threw THEN Rejected ELSE ret
  /\ files' = IF rules[idx].check \in {"checkContracts", "checkForbidden",
                                       "checkModuleManifest"}
              THEN SelectSeq(files,
                     LAMBDA f : Selected(rules[idx].check,
                                  EntryName(tree, Rel(projectPath, f))))
              ELSE files
  /\ idx' = idx + 1
  /\ calls' = Append(calls, rules[idx].check)
  /\ UNCHANGED <<walk, projectPath, disk, tree, contents, returned, loaded, rules>>

\* one iteration of the rule loop for a rule of the registry: the check is
\* the built-in function, which reads the files of the project
RunBuiltinCheck ==
  /\ pc = "running"
  /\ idx <= Len(rules)
  /\ LET o == BuiltinCheck(rules[idx].check, tree, projectPath, loaded.config,
                           files, contents)
         r == RunRule(rules[idx], o)
     IN /\ outcomes' = Append(outcomes, o)
        /\ results' = IF r.threw THEN results ELSE results \o r.value
        /\ pc' = IF r.threw THEN "rejected" ELSE pc
        /\ ret' = IF r.threw THEN Rejected ELSE ret
  /\ idx' = idx + 1
  /\ calls' = Append(calls, rules[idx].check)
  /\ UNCHANGED <<walk, projectPath, disk, tree, contents, returned, loaded, files, rules>>

\* validate is called again on the same project once the call before it has
\* settled; the histories of the call start anew
CallAgain ==
  /\ pc \in {"done", "rejected"}
  /\ Len(returned) < MaxCalls - 1
  /\ returned' = Append(returned, ret)
  /\ pc' = "start"
  /\ ret' = NotSettled
  /\ calls' = <<>>
  /\ outcomes' = <<>>
  /\ UNCHANGED <<walk, projectPath, disk, tree, contents, loaded, files, rules, idx,
                 results>>

---------------------------------------------------------------------------
(* scanFiles, one step of walkDir at a time.                               *)

\* the innermost call of walkDir
Top == walk.stack[Len(walk.stack)]

\* `return results` of the innermost call of walkDir: its caller goes on,
\* and scanFiles returns when it was the call on the project root
Returning == SubSeq(walk.stack, 1, Len(walk.stack) - 1)

\* scanFiles up to its call of walkDir on the project root
StartScan ==
  /\ pc = "loaded"
  /\ Len(loaded.errors) = 0
  /\ LET config == loaded.config
         e == ExtensionsFrom({}, Get(config, "languages").a)
     IN IF config.top = "null" \/ ~Truthy(Get(config, "languages"))
        THEN pc' = "scanned" /\ files' = <<>> /\ UNCHANGED <<walk, ret>>
        ELSE IF e.threw
        THEN pc' = "rejected" /\ ret' = Rejected /\ UNCHANGED <<walk, files>>
        ELSE IF e.value = {}
        THEN pc' = "scanned" /\ files' = <<>> /\ UNCHANGED <<walk, ret>>
        ELSE /\ pc' = "walking"
             /\ files' = <<>>
             /\ walk' = Walk(<<Frame(<<>>, FALSE, 0)>>, e.value, <<>>, <<>>)
             /\ ret' = ret
  /\ calls' = Append(calls, "scanFiles")
  /\ UNCHANGED <<projectPath, disk, tree, contents, returned, loaded, rules,
                 idx, results, outcomes>>

\* const entries = await readdir(dir, {withFileTypes: true}); a directory
\* that cannot be read throws into the catch block and the call returns
ReadDir ==
  /\ pc = "walking"
  /\ ~Top.read
  /\ IF Top.dir \in DOMAIN tree /\ tree[Top.dir].readable
     THEN /\ walk' = [walk EXCEPT !.stack[Len(walk.stack)].read = TRUE,
                                  !.visited = Append(@, Top.dir)]
          /\ pc' = pc
     ELSE /\ walk' = [walk EXCEPT !.stack = Returning,
                                  !.visited = Append(@, Top.dir)]
          /\ pc' = IF Returning = <<>> THEN "scanned" ELSE pc
  /\ UNCHANGED <<projectPath, disk, tree, contents, returned, loaded, files,
                 rules, idx, results, outcomes, calls, ret>>

\* VisitEntry as it would be if an entry that is a symbolic link were
\* followed like a directory; the links of the model point to the project
\* root
VisitEntryFollowingLinks ==
  /\ pc = "walking"
  /\ Top.read
  /\ Top.done < Len(tree[Top.dir].entries)
  /\ LET entry == tree[Top.dir].entries[Top.done + 1]
         relPath == Append(Top.dir, NameStr(entry.name))
         fullPath == projectPath \o relPath
         stepped == [walk EXCEPT !.stack[Len(walk.stack)].done = @ + 1,
                                 !.seen = Append(@, <<Top.dir, Top.done + 1>>)]
     IN /\ walk' = IF entry.kind = "dir" /\ ~InFixtures(fullPath)
                      /\ NameStr(entry.name) \notin skipDirs
                      /\ ~StartsWithDot(entry.name)
                   THEN [stepped EXCEPT
                           !.stack = Append(@, Frame(relPath, FALSE, 0))]
                   ELSE IF entry.kind = "other"
                   THEN [stepped EXCEPT
                           !.stack = Append(@, Frame(<<>>, FALSE, 0))]
                   ELSE stepped
        /\ files' = IF entry.kind = "file" /\ ~IsMinified(entry.name)
                       /\ extname(entry.name) \in walk.extensions
                    THEN Append(files, fullPath)
                    ELSE files
  /\ UNCHANGED <<projectPath, disk, tree, contents, returned, pc, loaded,
                 rules, idx, results, outcomes, calls, ret>>

\* one iteration of for (const entry of entries): a directory that is
\* neither a fixture nor skipped is walked by a call of its own, a file that
\* is not minified and has one of the extensions is pushed
VisitEntry ==
  /\ pc = "walking"
  /\ Top.read
  /\ Top.done < Len(tree[Top.dir].entries)
  /\ LET entry == tree[Top.dir].entries[Top.done + 1]
         relPath == Append(Top.dir, NameStr(entry.name))
         fullPath == projectPath \o relPath
         stepped == [walk EXCEPT !.stack[Len(walk.stack)].done = @ + 1,
                                 !.seen = Append(@, <<Top.dir, Top.done + 1>>)]
     IN /\ walk' = IF entry.kind = "dir" /\ ~InFixtures(fullPath)
                      /\ NameStr(entry.name) \notin skipDirs
                      /\ ~StartsWithDot(entry.name)
                   THEN [stepped EXCEPT
                           !.stack = Append(@, Frame(relPath, FALSE, 0))]
                   ELSE stepped
        /\ files' = IF entry.kind = "file" /\ ~IsMinified(entry.name)
                       /\ extname(entry.name) \in walk.extensions
                    THEN Append(files, fullPath)
                    ELSE files
  /\ UNCHANGED <<projectPath, disk, tree, contents, returned, pc, loaded,
                 rules, idx, results, outcomes, calls, ret>>

\* the loop over the entries has ended: return results
ReturnFromDir ==
  /\ pc = "walking"
  /\ Top.read
  /\ Top.done = Len(tree[Top.dir].entries)
  /\ walk' = [walk EXCEPT !.stack = Returning]
  /\ pc' = IF Returning = <<>> THEN "scanned" ELSE pc
  /\ UNCHANGED <<projectPath, disk, tree, contents, returned, loaded, files,
                 rules, idx, results, outcomes, calls, ret>>

---------------------------------------------------------------------------
(* The command line: aocs validate [path].                                 *)

\* the position of a process that called process.exit(code)
Exited(code) == IF code = 0 THEN "exit0" ELSE "exit1"

\* an argument of the command line: its text is a path unless it starts
\* with '--'
PathArg(path) == [option |-> FALSE, path |-> path]
OptionArg == [option |-> TRUE, path |-> <<>>]

\* pathArg && !pathArg.startsWith('--') ? pathArg : process.cwd(), where
\* pathArg is the first argument after 'validate'
ProjectPathOf(args, cwd) ==
  IF Len(args) >= 1 /\ ~args[1].option THEN args[1].path ELSE cwd

\* Exit as it would be if warnings failed the run as well
ExitCountingWarnings ==
  /\ pc = "done"
  /\ pc' = Exited(IF ret.failed + ret.warnings > 0 THEN 1 ELSE 0)
  /\ UNCHANGED <<walk, projectPath, disk, tree, contents, returned, loaded, files,
                 rules, idx, results, outcomes, calls, ret>>

\* runValidate after validate resolved:
\* process.exit(result.failed > 0 ? 1 : 0)
Exit ==
  /\ pc = "done"
  /\ pc' = Exited(IF ret.failed > 0 THEN 1 ELSE 0)
  /\ UNCHANGED <<walk, projectPath, disk, tree, contents, returned, loaded, files,
                 rules, idx, results, outcomes, calls, ret>>

\* the catch block of the main function after validate rejected:
\* console.error('Error:', err.message); process.exit(1)
ExitOnError ==
  /\ pc = "rejected"
  /\ pc' = Exited(1)
  /\ UNCHANGED <<walk, projectPath, disk, tree, contents, returned, loaded, files,
                 rules, idx, results, outcomes, calls, ret>>

---------------------------------------------------------------------------
(* Initial states.                                                         *)

DefaultPath == <<"proj">>
FixturePath == <<"repo", "cli", "test", "fixtures", "valid">>
ProjectPaths == {DefaultPath, FixturePath}

\* process.cwd()
Cwd == DefaultPath

File(name) == Entry(name, "file")
Folder(name) == Entry(name, "dir")

\* a project tree with a source directory, a dependency cache, a hidden
\* directory, fixtures, a minified file and an unreadable directory
SampleTree ==
  ( <<>> :> Dir(TRUE, << File(<<"index", "js">>), Folder(<<"src">>),
                         Folder(<<"node_modules">>), Folder(<<"", "git">>),
                         File(<<"site", "min", "css">>), Folder(<<"test">>),
                         Folder(<<"locked">>), File(<<"README", "agent", "md">>) >>)
    @@ <<"src">> :> Dir(TRUE, << File(<<"a", "js">>), File(<<"style", "css">>),
                                 File(<<"page", "html">>) >>)
    @@ <<"node_modules">> :> Dir(TRUE, << File(<<"dep", "js">>) >>)
    @@ <<".git">> :> Dir(TRUE, << File(<<"hook", "js">>) >>)
    @@ <<"test">> :> Dir(TRUE, << Folder(<<"fixtures">>), File(<<"t", "js">>) >>)
    @@ <<"test", "fixtures">> :> Dir(TRUE, << Folder(<<"invalid">>) >>)
    @@ <<"test", "fixtures", "invalid">> :> Dir(TRUE, << File(<<"bad", "js">>) >>)
    @@ <<"locked">> :> Dir(FALSE, << File(<<"secret", "js">>) >>) )

\* a contract with the three required fields and the given languages
Contract(langs) ==
  Parsed("object", [NoFields EXCEPT !["aocsVersion"] = Str("0.8"),
                                    !["languages"] = Arr(langs),
                                    !["mode"] = Str("strict")])

WithField(config, f, v) == Parsed(config.top, [config.fields EXCEPT ![f] = v])

\* the contract files the runs of validate start from
PipelineDisks ==
  { AbsentDisk, BadJsonDisk,
    JsonDisk(NullConfig),
    JsonDisk(Parsed("number", NoFields)),
    JsonDisk(Parsed("object", NoFields)),
    JsonDisk(WithField(Contract(<<Str("javascript")>>), "mode", Str("bogus"))),
    JsonDisk(WithField(Contract(<<>>), "roles", Arr(<<Str("nope")>>))),
    JsonDisk(Contract(<<Num("1")>>)),
    JsonDisk(Contract(<<Str("constructor")>>)),
    JsonDisk(Contract(<<Str("cobol")>>)),
    JsonDisk(Contract(<<Str("javascript")>>)),
    JsonDisk(WithField(Contract(<<Str("JS"), Str("css")>>),
                       "forbiddenPatterns", Arr(<<Str("dynamic-eval")>>))) }

\* the texts of the files of SampleTree: the fixture and the files of the
\* excluded directories are the ones with findings
SampleContents ==
  ( <<"index.js">> :> CleanText
    @@ <<"README.agent.md">> :> CleanText
    @@ <<"site.min.css">> :> DirtyText
    @@ <<"src", "a.js">> :> CleanText
    @@ <<"src", "style.css">> :> CleanText
    @@ <<"src", "page.html">> :> CleanText
    @@ <<"node_modules", "dep.js">> :> DirtyText
    @@ <<".git", "hook.js">> :> DirtyText
    @@ <<"test", "t.js">> :> CleanText
    @@ <<"test", "fixtures", "invalid", "bad.js">> :> DirtyText
    @@ <<"locked", "secret.js">> :> CleanText )

InitRun ==
  /\ tree = SampleTree
  /\ contents = SampleContents
  /\ returned = <<>>
  /\ walk = NotWalking
  /\ loaded = Returned(NullConfig, <<>>)
  /\ files = <<>>
  /\ rules = <<>>
  /\ idx = 0
  /\ outcomes = <<>>
  /\ calls = <<>>
  /\ ret = NotSettled

Init ==
  /\ projectPath \in ProjectPaths
  /\ disk \in PipelineDisks
  /\ pc = "start"
  /\ results = <<>>
  /\ InitRun

Next ==
  \/ LoadConfig
  \/ ConfigFail
  \/ ScanFiles
  \/ CollectRules
  \/ RunCheck
  \/ Report

Spec == Init /\ [][Next]_vars

---------------------------------------------------------------------------
(* loadConfig on its own, over the contracts of the schema.                *)

RequiredFields == FieldNames \ OptionalFields

EnumFields == {"modulePattern", "stateOwnership", "sideEffects", "namingSchema"}

\* a value of the closed set of an enum field
ValidEnum(f) ==
  CASE f = "modulePattern" -> Str("hybrid")
    [] f = "stateOwnership" -> Str("local-only")
    [] f = "sideEffects" -> Str("explicit")
    [] OTHER -> Str("free")

\* the falsy values a JSON document can hold besides null
FalsyValues == {Str(""), Num("0"), Bool("false")}

\* the values a field takes in the contracts of the model; Undef: absent
FieldValues(f) ==
  CASE f = "aocsVersion" -> {Undef, Str("0.8"), Str("")}
    [] f = "languages" ->
         {Undef, Str("javascript"), Arr(<<>>), Arr(<<Str("javascript")>>)}
    [] f = "mode" -> {Undef, Str("lite"), Str("strict"), Str("bogus"), Str("")}
    [] f \in EnumFields -> {ValidEnum(f), Str("bogus")} \cup FalsyValues
    [] f = "roles" ->
         {Arr(<<Str("adapter"), Str("config")>>),
          Arr(<<Str("adapter"), Str("bogus"), Str("nope")>>),
          Str("adapter")} \cup FalsyValues
    [] OTHER -> {Arr(<<Str("dynamic-eval")>>), Str("dynamic-eval")}
                \cup FalsyValues

RECURSIVE Assignments(_)
\* the assignments of values to the fields of S
Assignments(S) ==
  IF S = {} THEN {<<>>}
  ELSE LET f == CHOOSE x \in S : TRUE
       IN {(f :> v) @@ g : v \in FieldValues(f), g \in Assignments(S \ {f})}

\* the sets of optional fields present in a contract of the model
PresentSets == {T \in SUBSET OptionalFields : Cardinality(T) <= MaxOptionalPresent}

\* the contract object with the required fields as in r, the optional fields
\* of DOMAIN g as in g and the other optional fields absent
ContractObject(r, g) ==
  Parsed("object", [f \in FieldNames |->
                      IF f \in RequiredFields THEN r[f]
                      ELSE IF f \in DOMAIN g THEN g[f] ELSE Undef])

OtherDisks ==
  { AbsentDisk, BadJsonDisk, JsonDisk(NullConfig),
    JsonDisk(Parsed("number", NoFields)), JsonDisk(Parsed("string", NoFields)),
    JsonDisk(Parsed("array", NoFields)) }

InitConfig ==
  /\ \/ projectPath \in ProjectPaths /\ disk \in OtherDisks
     \/ /\ projectPath = DefaultPath
        /\ \E S \in PresentSets :
             \E r \in Assignments(RequiredFields), g \in Assignments(S) :
               disk = JsonDisk(ContractObject(r, g))
  /\ pc = "start"
  /\ results = <<>>
  /\ InitRun

NextConfig == LoadConfig

SpecConfig == InitConfig /\ [][NextConfig]_vars

---------------------------------------------------------------------------
(* report on its own, over lists of result records.                        *)

ViolationLists == {Absent, List(<<>>), List(<<V1>>), List(<<V1, V2>>)}

SampleRecords ==
  { ResultRecord("R", "Rule", level, vs) :
      level \in {"error", "warn", "info"}, vs \in ViolationLists }

RecordLists == UNION {[1..n -> SampleRecords] : n \in 0..MaxResults}

InitReport ==
  /\ projectPath = DefaultPath
  /\ disk = AbsentDisk
  /\ pc = "report"
  /\ results \in RecordLists
  /\ InitRun

NextReport == ReportCall

SpecReport == InitReport /\ [][NextReport]_vars

---------------------------------------------------------------------------
(* validate with the checks of the registry, over generated projects.      *)

\* a file of a project: its path below the root, one name per component,
\* and its text
Member(path, text) == [path |-> path, text |-> text]

\* the files a generated project is made of
FilePool ==
  { Member(<< <<"a", "js">> >>, CleanText),
    Member(<< <<"lib", "min", "js">> >>, DirtyText),
    Member(<< ReadmeName >>, DirtyText),
    Member(<< <<"src">>, <<"b", "ts">> >>, DirtyText),
    Member(<< <<"src">>, <<"deep">>, <<"c", "css">> >>, DirtyText),
    Member(<< <<"src">>, <<"page", "html">> >>, DirtyText),
    Member(<< <<"src">>, <<"notes", "txt">> >>, DirtyText),
    Member(<< <<"src">>, <<"dist">>, <<"f", "js">> >>, DirtyText),
    Member(<< <<"node_modules">>, <<"pkg">>, <<"d", "js">> >>, DirtyText),
    Member(<< <<"", "cache">>, <<"e", "js">> >>, DirtyText),
    Member(<< <<"test">>, <<"fixtures">>, <<"g", "js">> >>, DirtyText),
    Member(<< <<"test">>, <<"fixtures">>, <<"bad">>, <<"h", "js">> >>,
           DirtyText) }

\* the strings of the components of a path
Strs(path) == [i \in 1..Len(path) |-> NameStr(path[i])]

\* the directories of the project made of the files P, the root included
DirsOf(P) ==
  {<<>>} \cup
  UNION {{SubSeq(m.path, 1, k) : k \in 0..(Len(m.path) - 1)} : m \in P}

\* the names of the entries of the directory d
ChildNames(P, d) ==
  {m.path[Len(d) + 1] :
     m \in {x \in P : Len(x.path) > Len(d) /\ SubSeq(x.path, 1, Len(d)) = d}}

RECURSIVE SeqOf(_)
\* the elements of a set in some order, as readdir lists entries
SeqOf(S) ==
  IF S = {} THEN <<>>
  ELSE LET x == CHOOSE y \in S : TRUE IN <<x>> \o SeqOf(S \ {x})

\* the directory tree of the project made of the files P, the directories
\* of U being unreadable
TreeOf(P, U) ==
  [ds \in {Strs(d) : d \in DirsOf(P)} |->
     LET d == CHOOSE x \in DirsOf(P) : Strs(x) = ds
     IN Dir(ds \notin U,
            SeqOf({Entry(n, IF \E m \in P : m.path = Append(d, n)
                            THEN "file" ELSE "dir") :
                     n \in ChildNames(P, d)}))]

\* the texts of the project made of the files P, the files of X being
\* unreadable
ContentsOf(P, X) ==
  [fl \in {Strs(m.path) : m \in P} |->
     LET m == CHOOSE x \in P : Strs(x.path) = fl
     IN [m.text EXCEPT !.readable = fl \notin X]]

\* the language lists of the generated projects
LanguageLists ==
  { <<Str("javascript")>>,
    <<Str("javascript"), Str("js")>>,
    <<Str("javascript"), Str("typescript")>>,
    <<Str("css"), Str("css")>>,
    <<Str("JS"), Str("html")>>,
    <<Str("cobol")>>,
    <<Str("cobol"), Str("typescript")>>,
    <<Str("constructor"), Str("css")>> }

\* the contract of a generated project
ProjectContract(langs) ==
  WithField(Contract(langs), "forbiddenPatterns",
            Arr(<<Str("dynamic-eval"), Str("no-such-pattern"),
                  Str("implicit-global")>>))

\* at most one element of S
AtMostOne(S) == {{}} \cup {{x} : x \in S}

InitProject ==
  /\ projectPath \in ProjectPaths
  /\ \E P \in {Q \in SUBSET FilePool : Cardinality(Q) <= MaxFiles} :
       \E U \in AtMostOne({Strs(d) : d \in DirsOf(P)}),
          X \in AtMostOne({Strs(m.path) : m \in P}) :
         /\ tree = TreeOf(P, U)
         /\ contents = ContentsOf(P, X)
  /\ disk \in {AbsentDisk} \cup
              {JsonDisk(ProjectContract(langs)) : langs \in LanguageLists}
  /\ pc = "start"
  /\ loaded = Returned(NullConfig, <<>>)
  /\ files = <<>>
  /\ rules = <<>>
  /\ idx = 0
  /\ results = <<>>
  /\ outcomes = <<>>
  /\ calls = <<>>
  /\ ret = NotSettled
  /\ returned = <<>>
  /\ walk = NotWalking

NextProject ==
  \/ LoadConfig
  \/ ConfigFail
  \/ ScanFiles
  \/ CollectRules
  \/ RunBuiltinCheck
  \/ Report

SpecProject == InitProject /\ [][NextProject]_vars

\* validate called MaxCalls times in a row on a generated project in the
\* working directory
InitTwice == InitProject /\ projectPath = Cwd

NextTwice ==
  \/ NextProject
  \/ CallAgain

SpecTwice == InitTwice /\ [][NextTwice]_vars

---------------------------------------------------------------------------
(* validate over projects whose source texts are given line by line.       *)

\* a compliant header, an export on line 2 and the manifest tags on lines
\* 21 and 22
LateManifestText ==
  FileText(TRUE,
           << RoleLine("//", "pure-logic"), ExportLine >> \o Blanks(18)
           \o << TagLine("@module:"), TagLine("@exports:") >>,
           NoneFound, 40)

\* a role outside the canonical six on line 3, @module on line 20 and no
\* @exports
ModuleOnlyText ==
  FileText(TRUE,
           << Blank, Blank, RoleLine("//", "helper") >> \o Blanks(16)
           \o << TagLine("@module:") >>,
           NoneFound, 40)

\* a role declared on line 6, an assignment at the start of line 7
LateRoleText ==
  FileText(TRUE,
           Blanks(5) \o << RoleLine("#", "config"),
                           HitLine("", "implicit-global") >>,
           NoneFound, 40)

\* a page whose header comment, on line 8, declares the role
HtmlHeaderText ==
  FileText(TRUE,
           Blanks(7) \o << Line("<!--", "ui-binding", {}, FALSE, {}, TRUE) >>,
           NoneFound, 40)

\* a compliant header, calls of eval inside a block comment and, on line 6,
\* an exported call of eval that uses Reflect
CommentedText ==
  FileText(TRUE,
           << RoleLine("/*", "adapter"), TagLine("@module:"),
              TagLine("@exports:"), HitLine("*", "dynamic-eval"),
              HitLine("/*", "dynamic-eval"),
              Line("", "", {}, TRUE, {"dynamic-eval", "reflection"}, FALSE) >>,
           NoneFound, 40)

\* the texts of the source files
TextPool == {CleanText, DirtyText, LateManifestText, ModuleOnlyText,
             LateRoleText, HtmlHeaderText, CommentedText}

\* the places of the source files
SourcePaths ==
  { << <<"a", "js">> >>, << <<"src">>, <<"b", "ts">> >>,
    << <<"src">>, <<"page", "html">> >>, << <<"src">>, <<"tool", "py">> >> }

\* the declared languages
TextLanguages ==
  <<Str("javascript"), Str("typescript"), Str("html"), Str("python")>>

\* the values of forbiddenPatterns; the string is refused by loadConfig
PatternValues ==
  { Undef,
    Str("dynamic-eval"),
    Arr(<<Str("dynamic-eval")>>),
    Arr(<<Str("dynamic-eval"), Str("implicit-global")>>),
    Arr(<<Str("no-such"), Str("dynamic-eval"), Str("no-such-pattern")>>),
    Arr(<<Str("no-such-pattern"), Str("no-such")>>),
    Arr(<<Str("reflection"), Str("nope")>>),
    Arr(<<Str("constructor"), Str("dynamic-eval")>>) }

InitText ==
  /\ projectPath = Cwd
  /\ \E paths \in {Q \in SUBSET SourcePaths : Cardinality(Q) <= MaxFiles} :
       \E assign \in [paths -> TextPool] :
         \E X \in AtMostOne({Strs(p) : p \in paths}) :
           LET P == {Member(p, assign[p]) : p \in paths}
           IN /\ tree = TreeOf(P, {})
              /\ contents = ContentsOf(P, X)
  /\ disk \in {JsonDisk(WithField(Contract(TextLanguages),
                                  "forbiddenPatterns", v)) :
                 v \in PatternValues}
  /\ pc = "start"
  /\ loaded = Returned(NullConfig, <<>>)
  /\ files = <<>>
  /\ rules = <<>>
  /\ idx = 0
  /\ results = <<>>
  /\ outcomes = <<>>
  /\ calls = <<>>
  /\ ret = NotSettled
  /\ returned = <<>>
  /\ walk = NotWalking

NextText == NextProject

SpecText == InitText /\ [][NextText]_vars

---------------------------------------------------------------------------
(* validate with the scan taken step by step, over generated projects that *)
(* may hold a symbolic link.                                               *)

\* the files the walked projects are made of
WalkPool ==
  { Member(<< <<"a", "js">> >>, CleanText),
    Member(<< <<"lib", "min", "js">> >>, DirtyText),
    Member(<< <<"src">>, <<"b", "ts">> >>, DirtyText),
    Member(<< <<"src">>, <<"deep">>, <<"c", "css">> >>, DirtyText),
    Member(<< <<"node_modules">>, <<"pkg">>, <<"d", "js">> >>, DirtyText),
    Member(<< <<"test">>, <<"fixtures">>, <<"bad">>, <<"h", "js">> >>,
           DirtyText) }

\* the directory with a symbolic link added to its entries
WithLink(dir) ==
  Dir(dir.readable, dir.entries \o << Entry(<<"loop">>, "other") >>)

\* the language lists of the walked projects
WalkLanguages ==
  { <<Str("javascript"), Str("typescript")>>, <<Str("css"), Str("cobol")>>,
    <<Str("cobol")>>, <<Str("constructor")>> }

InitWalk ==
  /\ projectPath \in ProjectPaths
  /\ \E P \in {Q \in SUBSET WalkPool : Cardinality(Q) <= MaxFiles} :
       \E U \in AtMostOne({Strs(d) : d \in DirsOf(P)}), linked \in BOOLEAN :
         /\ tree = IF linked
                   THEN [TreeOf(P, U) EXCEPT ![<<>>] = WithLink(@)]
                   ELSE TreeOf(P, U)
         /\ contents = ContentsOf(P, {})
  /\ disk \in {AbsentDisk} \cup
              {JsonDisk(ProjectContract(langs)) : langs \in WalkLanguages}
  /\ pc = "start"
  /\ loaded = Returned(NullConfig, <<>>)
  /\ files = <<>>
  /\ rules = <<>>
  /\ idx = 0
  /\ results = <<>>
  /\ outcomes = <<>>
  /\ calls = <<>>
  /\ ret = NotSettled
  /\ returned = <<>>
  /\ walk = NotWalking

NextWalk ==
  \/ LoadConfig
  \/ ConfigFail
  \/ StartScan
  \/ ReadDir
  \/ VisitEntry
  \/ ReturnFromDir
  \/ CollectRules
  \/ RunBuiltinCheck
  \/ Report

\* the event loop runs every continuation that is ready
SpecWalk == InitWalk /\ [][NextWalk]_vars /\ WF_vars(NextWalk)

---------------------------------------------------------------------------
(* aocs validate [path]: validate, then process.exit.                      *)

\* the arguments after 'validate'
CliArgs ==
  { <<>>, <<PathArg(FixturePath)>>, <<OptionArg>>,
    <<PathArg(FixturePath), OptionArg>>, <<OptionArg, PathArg(FixturePath)>> }

InitCli ==
  /\ \E args \in CliArgs : projectPath = ProjectPathOf(args, Cwd)
  /\ disk \in PipelineDisks
  /\ pc = "start"
  /\ results = <<>>
  /\ InitRun

NextCli ==
  \/ Next
  \/ Exit
  \/ ExitOnError

SpecCli == InitCli /\ [][NextCli]_vars

---------------------------------------------------------------------------
(* aocs init, then validate on the project it scaffolded.                  *)

\* the answer to 'Project name: ': its text and the number of its words
ProjectName(text, words) == [text |-> text, words |-> words]

\* a piece of the languages answer between two commas: the word it holds
\* ("" when it holds blanks only) and whether blanks surround the word
Segment(word, padded) == [word |-> word, padded |-> padded]

\* l.trim()
Trim(segment) == segment.word

\* languagesInput.split(',').map(l => l.trim()).filter(l => l.length > 0)
ParseLanguages(segments) ==
  SelectSeq([i \in 1..Len(segments) |-> Trim(segments[i])],
            LAMBDA l : l # "")

\* await ask('Mode (lite/strict) [strict]: ') || 'strict'
ModeOf(answer) == IF answer = "" THEN "strict" ELSE answer

\* the contract init writes, as JSON.parse reads it back
InitContract(languages, mode) ==
  Parsed("object",
         [NoFields EXCEPT
            !["aocsVersion"] = Str("0.7"),
            !["languages"] = Arr([i \in 1..Len(languages) |-> Str(languages[i])]),
            !["mode"] = Str(mode),
            !["forbiddenPatterns"] =
               Arr(<<Str("dynamic-eval"), Str("implicit-global")>>)])

\* the words of the README template around the project name
ReadmeTemplateWords == 47

\* the README.agent.md init writes
InitReadme(name) ==
  FileText(TRUE, Blanks(12), NoneFound, ReadmeTemplateWords + name.words)

\* the directory with the two files of init added to its entries
WithInitFiles(dir) ==
  Dir(dir.readable,
      dir.entries \o << File(<<"aocs", "json">>), File(ReadmeName) >>)

\* the answers given to init
InitAnswers ==
  [ name : {ProjectName("demo", 1), ProjectName("my demo app", 3)},
    languages : { <<Segment("javascript", FALSE)>>,
                  <<Segment("typescript", FALSE)>>,
                  <<Segment("javascript", FALSE), Segment("css", TRUE)>>,
                  <<Segment("javascript", FALSE), Segment("", FALSE),
                    Segment("html", TRUE)>>,
                  <<Segment("", TRUE)>> },
    mode : {"", "lite", "strict", "banana", "Strict"} ]

\* initProject: no language left after the filter is refused with status
\* 1; else aocs.json and README.agent.md are written to the working
\* directory, and a failing write ends the command with status 1
initProject ==
  /\ pc = "init"
  /\ \E a \in InitAnswers :
       LET languages == ParseLanguages(a.languages)
       IN IF Len(languages) = 0
          THEN /\ pc' = Exited(1)
               /\ UNCHANGED <<disk, tree, contents>>
          ELSE \/ /\ disk' = JsonDisk(InitContract(languages, ModeOf(a.mode)))
                  /\ tree' = [tree EXCEPT ![<<>>] = WithInitFiles(@)]
                  /\ contents' = (<<NameStr(ReadmeName)>> :> InitReadme(a.name))
                                 @@ contents
                  /\ pc' = "start"
               \/ /\ pc' = Exited(1)
                  /\ UNCHANGED <<disk, tree, contents>>
  /\ UNCHANGED <<walk, projectPath, returned, loaded, files, rules, idx, results,
                 outcomes, calls, ret>>

\* the project before init: one compliant source file
StarterFiles == { Member(<< <<"src">>, <<"example", "js">> >>, CleanText) }

InitScaffold ==
  /\ projectPath = Cwd
  /\ disk = AbsentDisk
  /\ tree = TreeOf(StarterFiles, {})
  /\ contents = ContentsOf(StarterFiles, {})
  /\ pc = "init"
  /\ loaded = Returned(NullConfig, <<>>)
  /\ files = <<>>
  /\ rules = <<>>
  /\ idx = 0
  /\ results = <<>>
  /\ outcomes = <<>>
  /\ calls = <<>>
  /\ ret = NotSettled
  /\ returned = <<>>
  /\ walk = NotWalking

NextScaffold ==
  \/ initProject
  \/ NextProject

SpecScaffold == InitScaffold /\ [][NextScaffold]_vars

---------------------------------------------------------------------------
(* Properties.                                                             *)

Range(sq) == {sq[i] : i \in 1..Len(sq)}

\* the messages loadConfig has for each field of the contract
MessagesOf(f) ==
  CASE f = "aocsVersion" -> {"aocs.json missing required field: aocsVersion"}
    [] f = "languages" -> {"aocs.json missing required field: languages",
                           "aocs.json: languages must be an array",
                           "aocs.json: languages array cannot be empty"}
    [] f = "mode" -> {"aocs.json missing required field: mode",
                      "aocs.json: mode must be \"lite\" or \"strict\""}
    [] f = "modulePattern" ->
         {"aocs.json: modulePattern must be one of: agent-module, traditional, hybrid"}
    [] f = "stateOwnership" ->
         {"aocs.json: stateOwnership must be one of: local-only, shared-explicit, global-allowed"}
    [] f = "sideEffects" ->
         {"aocs.json: sideEffects must be one of: explicit, implicit-allowed"}
    [] f = "namingSchema" ->
         {"aocs.json: namingSchema must be one of: verbNoun, nounVerb, free"}
    [] f = "allowedPatterns" -> {"aocs.json: allowedPatterns must be an array"}
    [] f = "forbiddenPatterns" -> {"aocs.json: forbiddenPatterns must be an array"}
    [] OTHER -> {"aocs.json: roles must be an array",
                 "aocs.json: invalid roles: bogus, nope"}

\* the closed set of values of an optional enum field
ClosedSet(f) ==
  CASE f = "modulePattern" -> {"agent-module", "traditional", "hybrid"}
    [] f = "stateOwnership" -> {"local-only", "shared-explicit", "global-allowed"}
    [] f = "sideEffects" -> {"explicit", "implicit-allowed"}
    [] OTHER -> {"verbNoun", "nounVerb", "free"}

\* the field is present in the contract
Present(v) == v # Undef

\* the constraint the schema puts on field f is violated by value v
Violated(f, v) ==
  CASE f = "aocsVersion" -> ~(v.t = "string" /\ v.s # "")
    [] f = "languages" -> ~(v.t = "array" /\ Len(v.a) > 0)
    [] f = "mode" -> ~(v.t = "string" /\ v.s \in {"lite", "strict"})
    [] f \in EnumFields -> Present(v) /\ ~(v.t = "string" /\ v.s \in ClosedSet(f))
    [] f = "roles" ->
         Present(v) /\ ~(v.t = "array" /\
                         \A i \in 1..Len(v.a) :
                            v.a[i].t = "string" /\ v.a[i].s \in validRoles)
    [] OTHER -> Present(v) /\ v.t # "array"

\* the call of loadConfig has settled
Loaded == pc # "start"

\* C1: validate never throws or rejects: for every project path, every
\* content of aocs.json and every behaviour of a rule check the promise it
\* returns is never rejected.
C1_ValidateNeverRejects == ret.status # "rejected"

\* C2: loadConfig never throws: for every state of aocs.json the call
\* returns {config, errors}.
C2_LoadConfigNeverThrows == Loaded => ~loaded.threw

\* C3: whenever loadConfig returns a non-empty error list, validate scans no
\* files and calls no rule check, and what it returns holds exactly one
\* record, 'config-load' of severity error, with one violation per config
\* error in the same order, failed = 1, passed = 0 and warnings = 0.
C3_ConfigErrorsShortCircuit ==
  (Loaded /\ ~loaded.threw /\ Len(loaded.errors) > 0) =>
    /\ pc \in {"loaded", "done"}
    /\ calls \in {<<"loadConfig">>, <<"loadConfig", "report">>}
    /\ outcomes = <<>>
    /\ pc = "done" =>
         /\ ret.status = "resolved"
         /\ Len(ret.results) = 1
         /\ ret.results[1].id = "config-load"
         /\ ret.results[1].level = "error"
         /\ ret.results[1].violations.def
         /\ Len(ret.results[1].violations.items) = Len(loaded.errors)
         /\ \A i \in 1..Len(loaded.errors) :
              ret.results[1].violations.items[i].message = loaded.errors[i]
         /\ ret.failed = 1
         /\ ret.passed = 0
         /\ ret.warnings = 0

\* a run that stopped on a contract with three schema errors
C3_Witness ==
  /\ pc = "done"
  /\ Len(loaded.errors) = 3
  /\ Len(ret.results[1].violations.items) = 3

\* the check threw a value
Throws(o) == o.kind \in {"throwError", "throwNoMessage", "throwNullish"}

\* the check returned a non-empty warning list
ReturnsWarnings(o) ==
  o.kind = "return" /\ o.warnings.def /\ Len(o.warnings.items) > 0

\* the number of records a rule with this outcome contributes
RecordCount(o) == IF ReturnsWarnings(o) THEN 2 ELSE 1

RECURSIVE Offset(_, _)
\* the number of records contributed by the rules before rule k
Offset(os, k) ==
  IF k <= 1 THEN 0 ELSE Offset(os, k - 1) + RecordCount(os[k - 1])

\* the records of rule k in the result list
RecordsOfRule(k) ==
  SubSeq(results, Offset(outcomes, k) + 1,
         Offset(outcomes, k) + RecordCount(outcomes[k]))

\* C4: if the check of rule k throws, validate still executes every other
\* rule; rule k contributes exactly one record, with its id and name,
\* severity error and exactly one violation whose message embeds the
\* message of the thrown error; the records of the other rules are those
\* their own checks produce.
C4_ThrowingRuleIsIsolated ==
  \A k \in 1..Len(outcomes) :
    Throws(outcomes[k]) =>
      /\ pc # "rejected"
      /\ pc = "done" => Len(outcomes) = Len(rules)
      /\ Len(RecordsOfRule(k)) = 1
      /\ RecordsOfRule(k)[1].id = rules[k].id
      /\ RecordsOfRule(k)[1].name = rules[k].name
      /\ RecordsOfRule(k)[1].level = "error"
      /\ Len(RecordsOfRule(k)[1].violations.items) = 1
      /\ outcomes[k].kind = "throwError" =>
           RecordsOfRule(k)[1].violations.items[1].message =
             "Check failed: " \o outcomes[k].message
      /\ \A j \in 1..Len(outcomes) :
           (j # k /\ ~Throws(outcomes[j])) =>
             RecordsOfRule(j) = RunRule(rules[j], outcomes[j]).value

\* the rules checked so far whose check returned a non-empty warning list
WarningRules == {k \in 1..Len(outcomes) : ReturnsWarnings(outcomes[k])}

\* C5: a rule whose check returns a non-empty warning list produces exactly
\* two consecutive records, the primary (the rule's id, name and level, only
\* the violations) and then the secondary (id + '-warnings', name +
\* ' (warnings)', level warn, only the warnings); a check that returns no
\* warnings produces exactly one record; the secondary never enters the
\* passed/failed tally, and a run returns as many records as it has rules
\* plus rules that returned a non-empty warning list.
C5_WarningSplit ==
  (pc \in {"running", "done"} /\ "loadLanguageRules" \in Range(calls)) =>
    /\ Len(results) = Len(outcomes) + Cardinality(WarningRules)
    /\ \A k \in 1..Len(outcomes) :
         outcomes[k].kind = "return" =>
           /\ Len(RecordsOfRule(k)) = RecordCount(outcomes[k])
           /\ RecordsOfRule(k)[1] =
                [id |-> rules[k].id, name |-> rules[k].name,
                 level |-> rules[k].level,
                 violations |-> List(outcomes[k].violations.items)]
           /\ ReturnsWarnings(outcomes[k]) =>
                RecordsOfRule(k)[2] =
                  [id |-> rules[k].id \o "-warnings",
                   name |-> rules[k].name \o " (warnings)",
                   level |-> "warn",
                   violations |-> List(outcomes[k].warnings.items)]
    /\ pc = "done" =>
         /\ Len(ret.results) = Len(rules) + Cardinality(WarningRules)
         /\ ret.passed + ret.failed =
              Cardinality({k \in 1..Len(rules) :
                             RecordsOfRule(k)[1].level = "error"})

\* a finished run in which an error-level rule returned violations and
\* warnings and another rule returned warnings only
C5_Witness ==
  /\ pc = "done"
  /\ \E k \in WarningRules :
       /\ rules[k].level = "error"
       /\ Len(outcomes[k].violations.items) > 0
  /\ \E k \in WarningRules : ~outcomes[k].violations.def

\* the record holds at least one violation
NonEmpty(r) == r.violations.def /\ r.violations.items # <<>>

\* C6: report counts records, not violations: failed is the number of
\* error records with a non-empty violation list, passed the number of
\* error records with an empty or absent one, warnings the number of warn
\* records with a non-empty one.
C6_ReportCountsRecords ==
  pc = "done" =>
    /\ ret.failed = Cardinality({i \in 1..Len(results) :
                       results[i].level = "error" /\ NonEmpty(results[i])})
    /\ ret.passed = Cardinality({i \in 1..Len(results) :
                       results[i].level = "error" /\ ~NonEmpty(results[i])})
    /\ ret.warnings = Cardinality({i \in 1..Len(results) :
                       results[i].level = "warn" /\ NonEmpty(results[i])})

\* report has counted an error record with two violations, an error record
\* without a violation list and a warn record with an empty list
C6_Witness ==
  /\ pc = "done"
  /\ \E i \in 1..Len(results) :
       results[i].level = "error" /\ Len(results[i].violations.items) = 2
  /\ \E i \in 1..Len(results) :
       results[i].level = "error" /\ ~results[i].violations.def
  /\ \E i \in 1..Len(results) :
       results[i].level = "warn" /\ results[i].violations = List(<<>>)

\* C7: in every value returned by validate, passed + failed is the number
\* of error records of results, and passed is the number of those whose
\* violation list is empty.
C7_PassedPlusFailed ==
  ret.status = "resolved" =>
    /\ ret.passed + ret.failed =
         Cardinality({i \in 1..Len(ret.results) :
                        ret.results[i].level = "error"})
    /\ ret.passed =
         Cardinality({i \in 1..Len(ret.results) :
                        /\ ret.results[i].level = "error"
                        /\ ret.results[i].violations.items = <<>>})

\* a returned summary with passed, failed and warning records
C7_Witness ==
  /\ ret.status = "resolved"
  /\ ret.passed > 0
  /\ ret.failed > 0
  /\ ret.warnings > 0

\* the value of field f in the contract on disk
OnDisk(f) == Get(disk.parsed, f)

\* the error list holds a message about field f
Reported(f) == \E i \in 1..Len(loaded.errors) : loaded.errors[i] \in MessagesOf(f)

\* C8: for a parseable contract the error list holds one separate message
\* for each violated field constraint, whatever the other fields hold.
C8_OneMessagePerViolatedConstraint ==
  (Loaded /\ disk.kind = "json" /\ disk.parsed.top = "object") =>
    /\ ~loaded.threw
    /\ \A f \in FieldNames : Violated(f, OnDisk(f)) <=> Reported(f)
    /\ Len(loaded.errors) =
         Cardinality({f \in FieldNames : Violated(f, OnDisk(f))})

\* C9: loadConfig returns config null and exactly one error when aocs.json
\* cannot be read, config null and exactly one parse error when its text is
\* not valid JSON, and the parsed value as config when the text is
\* parseable.
C9_LoadConfigReturnsPerFileState ==
  Loaded =>
    /\ disk.kind = "absent" =>
         /\ ~loaded.threw
         /\ loaded.config = NullConfig
         /\ Len(loaded.errors) = 1
    /\ disk.kind = "badjson" =>
         /\ ~loaded.threw
         /\ loaded.config = NullConfig
         /\ loaded.errors =
              <<"aocs.json contains invalid JSON: " \o disk.parseError>>
    /\ disk.kind = "json" =>
         /\ ~loaded.threw
         /\ loaded.config = disk.parsed

\* C10: for every parseable contract in which an optional field is present
\* with a value outside its allowed set, falsy values included, loadConfig
\* reports an error for that field.
C10_PresentOptionalOutsideSetIsReported ==
  (Loaded /\ disk.kind = "json" /\ disk.parsed.top = "object") =>
    \A f \in OptionalFields :
      Violated(f, OnDisk(f)) => (~loaded.threw /\ Reported(f))

---------------------------------------------------------------------------
(* validate up to the rule loop, over the contracts of the schema.         *)

NextGate ==
  \/ LoadConfig
  \/ ConfigFail
  \/ ScanFiles
  \/ CollectRules

SpecGate == InitConfig /\ [][NextGate]_vars

\* the config has a version, a non-empty languages array and a mode that is
\* 'lite' or 'strict'
HasRequired(config) ==
  /\ Truthy(Get(config, "aocsVersion"))
  /\ IsArray(Get(config, "languages"))
  /\ Len(Get(config, "languages").a) > 0
  /\ Includes({"lite", "strict"}, Get(config, "mode"))

\* C11: whenever loadConfig returns an empty error list the returned config
\* has a version, a languages field that is a non-empty array and a mode
\* equal to 'lite' or 'strict'; the scanner and the rule registry are called,
\* and the rule loop is entered, only with such a config.
C11_EmptyErrorsMeansRequiredFields ==
  /\ (Loaded /\ ~loaded.threw /\ loaded.errors = <<>>) =>
       HasRequired(loaded.config)
  /\ (pc \in {"scanned", "running"} \/ "scanFiles" \in Range(calls)) =>
       HasRequired(loaded.config)

\* the rule loop is entered on a lite contract that declares a module pattern
C11_Witness ==
  /\ pc = "running"
  /\ loaded.errors = <<>>
  /\ Get(loaded.config, "mode") = Str("lite")
  /\ Get(loaded.config, "modulePattern") = Str("hybrid")

\* the call of scanFiles of this run has returned
ScanReturned ==
  /\ Len(calls) >= 2
  /\ calls[2] = "scanFiles"
  /\ ~(pc = "rejected" /\ Len(calls) = 2)

\* the call of loadLanguageRules of this run has returned
RulesLoaded ==
  /\ Len(calls) >= 3
  /\ calls[3] = "loadLanguageRules"
  /\ ~(pc = "rejected" /\ Len(calls) = 3)

\* the declared languages of a config whose languages field is an array
Declared(config) == Get(config, "languages").a

\* the union of the extension sets of the configured languages
ConfiguredExtensions(config) ==
  UNION {langExtMap(ToLowerCase(Declared(config)[i].s)).exts :
           i \in 1..Len(Declared(config))}

\* the name ends with .min.js or .min.css
MinifiedName(parts) ==
  /\ Len(parts) >= 3
  /\ parts[Len(parts) - 1] = "min"
  /\ parts[Len(parts)] \in {"js", "css"}

\* the deny-listed directory names
DenyList == {"node_modules", ".git", "dist", "build", "coverage", ".next", "out"}

\* a directory name that is deny-listed or starts with '.'
ExcludedDirName(parts) ==
  NameStr(parts) \in DenyList \/ (Len(parts) >= 2 /\ parts[1] = "")

\* the files named by the violations of the result records
ReportedFiles ==
  UNION {{results[i].violations.items[j].file :
            j \in 1..Len(results[i].violations.items)} :
         i \in 1..Len(results)}

\* the files of the project under a node_modules directory, as a violation
\* names them
UnderNodeModules ==
  {JoinWith(rel, "/") :
     rel \in {r \in DOMAIN contents :
                \E k \in 1..(Len(r) - 1) : r[k] = "node_modules"}}

\* C12: every path returned by scanFiles has an extension of the union of
\* the extension sets of the configured languages, is not a minified file
\* and has no component below the project root that is a deny-listed
\* directory or a directory whose name starts with '.', at any depth; no
\* result record holds a violation for a file under node_modules.
C12_ScannedPathsAreAdmissible ==
  /\ ScanReturned =>
       \A i \in 1..Len(files) :
         LET rel == Rel(projectPath, files[i])
         IN /\ extname(EntryName(tree, rel)) \in
                 ConfiguredExtensions(loaded.config)
            /\ ~MinifiedName(EntryName(tree, rel))
            /\ \A k \in 1..(Len(rel) - 1) :
                 ~ExcludedDirName(EntryName(tree, SubSeq(rel, 1, k)))
  /\ ReportedFiles \cap UnderNodeModules = {}

\* a run on a project with a file under node_modules that breaks every
\* rule and a scanned file for which violations are reported
C12_Witness ==
  /\ pc = "done"
  /\ UnderNodeModules # {}
  /\ Len(files) = 1
  /\ relative(projectPath, files[1]) \in ReportedFiles

\* C13: no path returned by scanFiles falls under a test/fixtures directory
\* of the project, be the file directly in it or in one of its
\* subdirectories.
C13_NoFixtureFileIsScanned ==
  ScanReturned =>
    \A i \in 1..Len(files) :
      LET rel == Rel(projectPath, files[i])
      IN ~\E k \in 1..(Len(rel) - 2) :
            rel[k] = "test" /\ rel[k + 1] = "fixtures"

\* C14: the list returned by scanFiles contains no path twice, also when
\* the languages list names a language twice or names aliases.
C14_NoPathTwice ==
  ScanReturned =>
    \A i, j \in 1..Len(files) : i # j => files[i] # files[j]

\* two files are returned for a list that names javascript and its alias
C14_Witness ==
  /\ ScanReturned
  /\ Declared(loaded.config) = <<Str("javascript"), Str("js")>>
  /\ Len(files) = 2

\* the primary records of the run: those that are not '-warnings' records
PrimaryIds ==
  SelectSeq([i \in 1..Len(results) |-> results[i].id],
            LAMBDA id : \E k \in 1..Len(rules) : rules[k].id = id)

\* C15: loadLanguageRules returns each rule of the declared languages once:
\* the rule set of the run holds no rule twice, each rule is executed once
\* and the primary result records carry pairwise distinct ids, also when
\* the languages share a rule set or a language is named twice.
C15_EachRuleOnce ==
  RulesLoaded =>
    /\ \A i, j \in 1..Len(rules) : i # j => rules[i].id # rules[j].id
    /\ pc = "done" =>
         /\ Len(outcomes) = Cardinality({rules[k].id : k \in 1..Len(rules)})
         /\ \A i, j \in 1..Len(PrimaryIds) :
              i # j => PrimaryIds[i] # PrimaryIds[j]

\* the keys of langExtMap and of languageModules
ScannerKeys == {"javascript", "js", "typescript", "ts", "python", "html",
                "css", "go", "rust", "java"}
RegistryKeys == {"javascript", "js", "typescript", "ts", "html", "css"}

\* the config with the language names outside `keys` removed
KnownOnly(config, keys) ==
  WithField(config, "languages",
            Arr(SelectSeq(Declared(config),
                          LAMBDA l : ToLowerCase(l.s) \in keys)))

\* the checks of the universal rules
UniversalChecks == {universalRules[k].check : k \in 1..Len(universalRules)}

\* C16: an unknown language name is a no-op in the scanner and in the rule
\* registry: neither call raises an error, and the files and the rules are
\* those of the known languages of the list; when every declared language
\* is unknown, no file is scanned, no language rule is loaded and validate
\* executes all universal rules.
C16_UnknownLanguageIsNoOp ==
  /\ (Len(calls) >= 2 /\ calls[2] = "scanFiles") =>
       /\ ScanReturned
       /\ files = scanFiles(tree, projectPath,
                            KnownOnly(loaded.config, ScannerKeys)).value
  /\ (Len(calls) >= 3 /\ calls[3] = "loadLanguageRules") =>
       /\ RulesLoaded
       /\ rules = universalRules \o
            loadLanguageRules(KnownOnly(loaded.config, RegistryKeys)).value
  /\ (Len(calls) >= 2 /\ calls[2] = "scanFiles"
      /\ Declared(KnownOnly(loaded.config, ScannerKeys)) = <<>>) =>
       /\ files = <<>>
       /\ pc \in {"scanned", "running", "done"}
       /\ pc \in {"running", "done"} => rules = universalRules
       /\ pc = "done" => UniversalChecks \subseteq Range(calls)

\* the tree with every directory readable
AllReadable(fs) == [d \in DOMAIN fs |-> Dir(TRUE, fs[d].entries)]

\* the directories that cannot be read
UnreadableDirs == {d \in DOMAIN tree : ~tree[d].readable}

\* the path rel lies under the directory d
UnderDir(rel, d) == Len(rel) > Len(d) /\ SubSeq(rel, 1, Len(d)) = d

\* the listed files that can be read, in the order of the list
ReadableFiles ==
  SelectSeq(files, LAMBDA f : CanRead(contents, Rel(projectPath, f)))

\* the listed files that cannot be read, as a violation would name them
UnreadableNames ==
  {relative(projectPath, files[i]) :
     i \in {k \in 1..Len(files) :
              ~CanRead(contents, Rel(projectPath, files[k]))}}

\* the checks that read the files of the list
FileBased == FileChecks \cup {"checkForbidden"}

\* C17: scan errors are never surfaced.  The scan returns what it would
\* return with every directory readable, less the paths under an unreadable
\* directory.  Each file-based check returns what it would return for the
\* list without the unreadable files: these produce no violation and the
\* files after them are checked.
C17_ScanErrorsAreSkipped ==
  /\ ScanReturned =>
       files = SelectSeq(
                 scanFiles(AllReadable(tree), projectPath, loaded.config).value,
                 LAMBDA f : \A d \in UnreadableDirs :
                              ~UnderDir(Rel(projectPath, f), d))
  /\ RulesLoaded =>
       \A k \in 1..Len(outcomes) :
         rules[k].check \in FileBased =>
           /\ outcomes[k].kind = "return"
           /\ outcomes[k] = BuiltinCheck(rules[k].check, tree, projectPath,
                                         loaded.config, ReadableFiles,
                                         contents)
           /\ \A j \in 1..Len(outcomes[k].violations.items) :
                outcomes[k].violations.items[j].file \notin UnreadableNames

\* a run in which an unreadable file of the list is followed by a file for
\* which violations are reported
C17_Witness ==
  /\ pc = "done"
  /\ \E i, j \in 1..Len(files) :
       /\ i < j
       /\ ~CanRead(contents, Rel(projectPath, files[i]))
       /\ relative(projectPath, files[j]) \in ReportedFiles

\* some record of severity error holds a violation
ErrorFound(rs) ==
  \E i \in 1..Len(rs) :
    /\ rs[i].level = "error"
    /\ rs[i].violations.def
    /\ Len(rs[i].violations.items) > 0

\* C18: the command `validate [path]` exits with status 0 iff the summary
\* returned by validate has failed = 0, and with status 1 otherwise; the
\* status depends on the records of severity error alone, whatever the
\* warn records hold.
C18_ExitStatusFollowsFailed ==
  /\ pc = "exit0" => (ret.status = "resolved" /\ ret.failed = 0)
  /\ pc = "exit1" => (ret.status = "rejected" \/ ret.failed > 0)
  /\ (pc \in {"exit0", "exit1"} /\ ret.status = "resolved") =>
       (pc = "exit1" <=> ErrorFound(ret.results))

\* the process exits with status 0 although a warn record holds violations
C18_Witness ==
  /\ pc = "exit0"
  /\ ret.warnings > 0
  /\ \E i \in 1..Len(ret.results) :
       /\ ret.results[i].level = "warn"
       /\ Len(ret.results[i].violations.items) = 2

\* C19: idempotence: a second call of validate on the same unmodified
\* project settles as the first call did: the same counts and the same
\* result records with the same violations; nothing the first call left
\* behind changes the second call's result.
C19_SecondCallReturnsTheSame ==
  (Len(returned) >= 1 /\ pc \in {"done", "rejected"}) =>
    \A k \in 1..Len(returned) : returned[k] = ret

\* the second call of a run that failed with warnings has returned
C19_Witness ==
  /\ Len(returned) = 1
  /\ pc = "done"
  /\ ret.failed > 0
  /\ ret.warnings > 0
  /\ Len(rules) > Len(universalRules)

\* C20: round trip with init: for every set of answers init accepts (a
\* project name, at least one language, any mode answer) validate on the
\* project made of the two files init writes and one compliant source file
\* returns a summary with failed = 0.
C20_InitThenValidatePasses ==
  pc \in {"done", "rejected"} => (ret.status = "resolved" /\ ret.failed = 0)

RECURSIVE RulesOfLanguages(_)
\* the rules of the languages of a list, language by language
RulesOfLanguages(langs) ==
  IF langs = <<>> THEN <<>>
  ELSE LanguageModule(ToLowerCase(Head(langs).s)).rules
       \o RulesOfLanguages(Tail(langs))

\* the rules of severity error of a rule list
ErrorRules(rs) == {k \in 1..Len(rs) : rs[k].level = "error"}

\* C21: for a project with a fully valid contract and an empty scanned file
\* list, validate executes every rule of the rule set (all universal rules
\* and all rules of the declared languages), every rule that iterates over
\* files reports zero violations, and passed equals the number of
\* error-severity rules in the rule set.
C21_EmptyFileListRunsEveryRule ==
  (ScanReturned /\ files = <<>>) =>
    /\ pc # "rejected"
    /\ pc = "done" =>
         /\ rules = universalRules \o RulesOfLanguages(Declared(loaded.config))
         /\ Len(outcomes) = Len(rules)
         /\ \A k \in 1..Len(rules) : calls[3 + k] = rules[k].check
         /\ \A k \in 1..Len(rules) :
              rules[k].check \in FileBased =>
                /\ RecordsOfRule(k)[1].id = rules[k].id
                /\ RecordsOfRule(k)[1].violations = List(<<>>)
         /\ ret.status = "resolved"
         /\ ret.passed = Cardinality(ErrorRules(rules))

\* a finished run on a project that holds files, none of them scanned, with
\* language rules in the rule set
C21_Witness ==
  /\ pc = "done"
  /\ files = <<>>
  /\ DOMAIN contents # {}
  /\ Len(rules) > Len(universalRules)
  /\ ret.passed = 4

\* some record of the result list has the id
HasRecord(id) == \E i \in 1..Len(results) : results[i].id = id

\* the first record of the result list with the id
RecordOf(id) ==
  results[CHOOSE i \in 1..Len(results) :
            results[i].id = id /\ \A j \in 1..(i - 1) : results[j].id # id]

\* the violations of the record with the id that name the file
ViolationsOf(id, name) ==
  SelectSeq(RecordOf(id).violations.items, LAMBDA v : v.file = name)

\* the text of a listed file
TextOf(file) == contents[Rel(projectPath, file)]

\* the listed file is a JS/TS file
IsJsTs(file) ==
  extname(EntryName(tree, Rel(projectPath, file)))
    \in {".js", ".mjs", ".cjs", ".ts", ".tsx"}

\* the text contains an export
HasExport(text) == \E i \in 1..Len(text.lines) : text.lines[i].export

\* the text holds a @module declaration on one of the lines from..to
ModuleDeclared(text, from, to) ==
  \E i \in from..to : i <= Len(text.lines) /\ "@module:" \in text.lines[i].tags

\* C22: the module-manifest rule (U1, severity warn) reports exactly one
\* violation, at line 1 of the file, for each scanned JS/TS file that
\* contains an export but has no @module declaration in its first 20 lines;
\* it never reports more than one violation for the same file, and reports
\* none for a file without exports and without @module.
C22_ModuleManifestOnePerFile ==
  (pc = "done" /\ RulesLoaded) =>
    /\ HasRecord("U1-module-manifest")
    /\ RecordOf("U1-module-manifest").level = "warn"
    /\ \A i \in 1..Len(files) :
         LET name == relative(projectPath, files[i])
             text == TextOf(files[i])
             vs == ViolationsOf("U1-module-manifest", name)
         IN /\ Len(vs) <= 1
            /\ (IsJsTs(files[i]) /\ text.readable /\ HasExport(text)
                /\ ~ModuleDeclared(text, 1, 20)) =>
                 vs = <<Violation(name, 1,
                          "File has exports but missing @module declaration")>>
            /\ (~HasExport(text)
                /\ ~ModuleDeclared(text, 1, Len(text.lines))) => vs = <<>>

\* a finished run over a file with an export whose @module declaration
\* stands on line 21, for which the rule reports one violation
C22_Witness ==
  /\ pc = "done"
  /\ \E i \in 1..Len(files) :
       /\ IsJsTs(files[i])
       /\ HasExport(TextOf(files[i]))
       /\ ModuleDeclared(TextOf(files[i]), 21, 21)
       /\ Len(ViolationsOf("U1-module-manifest",
                           relative(projectPath, files[i]))) = 1

\* the forbiddenPatterns of the loaded contract hold the name
Forbids(name) ==
  /\ IsArray(Get(loaded.config, "forbiddenPatterns"))
  /\ \E i \in 1..Len(Get(loaded.config, "forbiddenPatterns").a) :
       Get(loaded.config, "forbiddenPatterns").a[i] = Str(name)

\* the line is a comment line
CommentLine(line) == line.lead \in {"//", "/*", "*"}

\* the violations of U12 for the file at the line with the message of the
\* eval/Function-constructor checker
EvalViolations(name, n) ==
  SelectSeq(ViolationsOf("U12-forbidden", name),
            LAMBDA v : v.line = n /\
                       v.message = "Dynamic eval or Function constructor detected")

\* C23: with forbiddenPatterns containing 'dynamic-eval', the
\* forbidden-pattern rule (U12, severity error) reports exactly one
\* violation for each non-comment line of a scanned JS/TS file that matches
\* the eval/Function-constructor pattern, with line equal to that line's
\* 1-based number, and reports none for a matching line that is a comment
\* line; when forbiddenPatterns is absent it reports no violations and no
\* warnings.
C23_DynamicEvalOnePerLine ==
  (pc = "done" /\ RulesLoaded) =>
    /\ HasRecord("U12-forbidden")
    /\ Forbids("dynamic-eval") =>
         /\ RecordOf("U12-forbidden").level = "error"
         /\ \A i \in 1..Len(files) :
              (IsJsTs(files[i]) /\ TextOf(files[i]).readable) =>
                \A n \in 1..Len(TextOf(files[i]).lines) :
                  LET line == TextOf(files[i]).lines[n]
                      vs == EvalViolations(relative(projectPath, files[i]), n)
                  IN IF "dynamic-eval" \in line.hits /\ ~CommentLine(line)
                     THEN Len(vs) = 1
                     ELSE Len(vs) = 0
    /\ Get(loaded.config, "forbiddenPatterns") = Undef =>
         /\ RecordOf("U12-forbidden").violations = List(<<>>)
         /\ ~HasRecord("U12-forbidden-warnings")

\* what checkForbidden returned in this run
ForbiddenOutcome ==
  outcomes[CHOOSE k \in 1..Len(outcomes) : rules[k].check = "checkForbidden"]

\* the names of forbiddenPatterns that have no registered checker
Unregistered ==
  {p \in Range(Get(loaded.config, "forbiddenPatterns").a) :
     ~(p.t = "string" /\ p.s \in {"dynamic-eval", "dynamic-import",
                                  "reflection", "implicit-global"})}

\* C24: every name in forbiddenPatterns that has no registered checker
\* triggers a warning: the forbidden-pattern rule returns exactly one
\* warning naming that pattern, not a violation, for every number of
\* scanned files (including zero) and for every combination of other
\* unknown pattern names in the list.
C24_UnknownPatternWarnsOnce ==
  (pc = "done" /\ RulesLoaded
   /\ IsArray(Get(loaded.config, "forbiddenPatterns"))) =>
    \A p \in Unregistered :
      /\ Cardinality({i \in 1..Len(ForbiddenOutcome.warnings.items) :
                        ForbiddenOutcome.warnings.items[i].message =
                          "No checker for forbidden pattern: " \o p.s}) = 1
      /\ \A i \in 1..Len(ForbiddenOutcome.violations.items) :
           ForbiddenOutcome.violations.items[i].message #
             "No checker for forbidden pattern: " \o p.s

\* the line holds an AOCS-ROLE declaration
Declares(line) ==
  line.role # "" /\ line.lead \in {"//", "#", "<!--", "/*"}

\* the lines among the first n of the text that hold a declaration
DeclaredIn(text, n) ==
  {i \in 1..n : i <= Len(text.lines) /\ Declares(text.lines[i])}

\* the first of a non-empty set of line numbers
FirstOf(S) == CHOOSE i \in S : \A j \in S : i <= j

\* the six canonical roles
CanonicalRoles == {"pure-logic", "state-machine", "adapter", "ui-binding",
                   "io-boundary", "config"}

\* the violation reports a missing role
IsMissingRole(v) ==
  v.message \in {"Missing AOCS-ROLE declaration in first 5 lines",
                 "Missing AOCS-ROLE declaration in first 15 lines"}

\* the violation reports the role as invalid
IsInvalidRole(v, role) ==
  v.message = "Invalid role \"" \o role \o "\". Must be one of: "
              \o "pure-logic, state-machine, adapter, ui-binding, "
              \o "io-boundary, config"

\* C25: the file-role rule (U9) requires the AOCS-ROLE declaration in the
\* first 5 lines of every scanned file: a file whose first 5 lines hold no
\* AOCS-ROLE declaration gets a missing-role violation at line 1, a file
\* whose declared role is outside the six canonical roles gets an
\* invalid-role violation at the declaration's line, and each file gets at
\* most one violation.
C25_RoleInFirstFiveLines ==
  (pc = "done" /\ RulesLoaded) =>
    /\ HasRecord("U9-file-roles")
    /\ \A i \in 1..Len(files) :
         LET name == relative(projectPath, files[i])
             text == TextOf(files[i])
             vs == ViolationsOf("U9-file-roles", name)
             declared == DeclaredIn(text, 5)
         IN /\ Len(vs) <= 1
            /\ text.readable =>
                 IF declared = {}
                 THEN Len(vs) = 1 /\ vs[1].line = 1 /\ IsMissingRole(vs[1])
                 ELSE IF text.lines[FirstOf(declared)].role \notin CanonicalRoles
                 THEN /\ Len(vs) = 1
                      /\ vs[1].line = FirstOf(declared)
                      /\ IsInvalidRole(vs[1], text.lines[FirstOf(declared)].role)
                 ELSE vs = <<>>

\* the ids of the universal rules, in registry order
RegistryOrder == << "U8-repo-contract", "U13-agent-readme", "U9-file-roles",
                    "U2-contracts", "U10-hints", "U12-forbidden",
                    "U1-module-manifest" >>

\* the ids of the rules of a language
LanguageIds(language) ==
  CASE language \in {"javascript", "js", "typescript", "ts"} ->
         <<"JS1-state-manifest">>
    [] language = "html" -> <<"HTML1-interactive-ids">>
    [] language = "css" -> <<"CSS1-design-tokens">>
    [] OTHER -> <<>>

RECURSIVE RuleSetOrder(_)
\* the ids of the language rules in the order of config.languages
RuleSetOrder(langs) ==
  IF langs = <<>> THEN <<>>
  ELSE LanguageIds(ToLowerCase(Head(langs).s)) \o RuleSetOrder(Tail(langs))

RECURSIVE RecordIds(_)
\* the ids of the records the first n rules contribute: the id of each rule
\* and, right after it, the id of its '-warnings' record if it has one
RecordIds(n) ==
  IF n = 0 THEN <<>>
  ELSE RecordIds(n - 1) \o <<rules[n].id>>
       \o (IF ReturnsWarnings(outcomes[n])
           THEN <<rules[n].id \o "-warnings">> ELSE <<>>)

\* the ids of the records of the result list
ResultIds == [i \in 1..Len(results) |-> results[i].id]

\* between the collection of the rules and the report: idx - 1 checks have
\* been called, in rule-set order, and the result list holds the records of
\* just these rules, in that order
InRuleOrder ==
  (RulesLoaded /\ pc \in {"running", "done"}) =>
    /\ [k \in 1..Len(rules) |-> rules[k].id] =
         RegistryOrder \o RuleSetOrder(Declared(loaded.config))
    /\ Len(outcomes) = idx - 1
    /\ Len(calls) = 3 + Len(outcomes) + (IF pc = "done" THEN 1 ELSE 0)
    /\ \A k \in 1..Len(outcomes) : calls[3 + k] = rules[k].check
    /\ ResultIds = RecordIds(idx - 1)
    /\ pc = "done" => (idx = Len(rules) + 1 /\ ret.results = results)

\* a step of the rule loop calls the check of one rule, the next one in the
\* rule set, and leaves the records of the rules before it in place
OneRuleAtATime ==
  (pc = "running" /\ idx <= Len(rules)) =>
    /\ idx' = idx + 1
    /\ calls' = Append(calls, rules[idx].check)
    /\ Len(results') >= Len(results)
    /\ SubSeq(results', 1, Len(results)) = results

\* C26: rule execution is strictly sequential and ordered: at most one rule
\* check is in progress at any time, the check of a rule starts only after
\* the record(s) of the preceding rule have been appended to the result
\* list, and the result list ends in rule-set order (universal rules in
\* registry order, then language rules in the order of config.languages),
\* with each rule's '-warnings' record immediately after its primary record.
C26_RulesRunInOrder == []InRuleOrder /\ [][OneRuleAtATime]_vars

\* a finished run with a '-warnings' record between the records of two
\* universal rules and the record of a language rule at the end
C26_Witness ==
  /\ pc = "done"
  /\ Len(rules) > Len(universalRules)
  /\ results[Len(results)].id = rules[Len(rules)].id
  /\ \E i \in 2..(Len(results) - 2) :
       results[i].id = results[i - 1].id \o "-warnings"

\* the config and the file list of the run are the values loadConfig and
\* scanFiles produce for the project
AsProduced ==
  (ScanReturned /\ pc \in {"scanned", "running", "done"}) =>
    /\ loaded = loadConfig(projectPath, disk)
    /\ files = scanFiles(tree, projectPath, loaded.config).value

\* no step after the scan changes the config, the file list or the project
ReadOnly ==
  pc \in {"scanned", "running"} =>
    /\ loaded' = loaded
    /\ files' = files
    /\ disk' = disk
    /\ tree' = tree
    /\ contents' = contents

\* C27: configuration and file list are read-only for the whole run: after
\* any prefix of the rule loop, the config object and the file list passed
\* to the next rule equal the values produced by loadConfig and scanFiles;
\* no registered rule check and no step of validate modifies them, and
\* every rule receives the same two values.
C27_ConfigAndFilesAreReadOnly == []AsProduced /\ [][ReadOnly]_vars

\* a finished run over two scanned files, one of them not a JS/TS file, in
\* which every rule of the rule set was checked
C27_Witness ==
  /\ pc = "done"
  /\ Len(files) = 2
  /\ \E i \in 1..Len(files) : ~IsJsTs(files[i])
  /\ Len(outcomes) = Len(rules)
  /\ Len(rules) > Len(universalRules)

\* the records of U8 in the result list
ContractRecords ==
  {i \in 1..Len(results) : results[i].id = "U8-repo-contract"}

\* C28: in every run of validate in which rules are executed, the
\* repository-contract rule U8 (checkAocsJson) reports zero violations:
\* rules run only when loadConfig returned no errors, and then the config
\* passed to U8 is the non-null parsed contract, so a missing or invalid
\* contract is only ever reported through the synthetic 'config-load'
\* record, never through U8.
C28_ContractRuleNeverFails ==
  /\ Len(outcomes) > 0 =>
       /\ ~loaded.threw
       /\ loaded.errors = <<>>
       /\ loaded.config # NullConfig
       /\ loaded.config = disk.parsed
       /\ rules[1].check = "checkAocsJson"
       /\ outcomes[1] = Return(List(<<>>), Absent)
  /\ \A i \in ContractRecords : results[i].violations = List(<<>>)
  /\ (Loaded /\ (loaded.threw \/ Len(loaded.errors) > 0)) =>
       /\ outcomes = <<>>
       /\ ContractRecords = {}
       /\ pc = "done" =>
            [i \in 1..Len(results) |-> results[i].id] = <<"config-load">>

\* a finished run that failed on another rule while the record of U8 is
\* empty
C28_Witness ==
  /\ pc = "done"
  /\ ContractRecords # {}
  /\ ret.failed > 0
  /\ Len(outcomes) = Len(rules)

\* the text of the project path contains '/test/fixtures/'
ProjectInFixtures ==
  \E i \in 1..(Len(projectPath) - 2) :
    projectPath[i] = "test" /\ projectPath[i + 1] = "fixtures"

\* the files directly in the project root that match the configured
\* extensions and are not minified, in directory order
RootFiles ==
  LET matching ==
        SelectSeq(tree[<<>>].entries,
                  LAMBDA e : /\ e.kind = "file"
                             /\ extname(e.name) \in
                                  ConfiguredExtensions(loaded.config)
                             /\ ~MinifiedName(e.name))
  IN [i \in 1..Len(matching) |-> Append(projectPath, NameStr(matching[i].name))]

\* the files of the project that lie in a subdirectory, as a violation
\* names them
InSubdirectories ==
  {JoinWith(rel, "/") : rel \in {r \in DOMAIN contents : Len(r) > 1}}

\* C29: the test-fixture exclusion is evaluated on the full path of each
\* directory, not on its path relative to the project root: when the
\* project path itself contains a '/test/fixtures/' segment, scanFiles
\* descends into no subdirectory at all and returns only matching files
\* located directly in the project root, so source files in subdirectories
\* of such a project are checked by no rule.
C29_FixtureProjectsAreScannedFlat ==
  (ScanReturned /\ ProjectInFixtures) =>
    /\ \A i \in 1..Len(files) : Len(Rel(projectPath, files[i])) = 1
    /\ files = IF tree[<<>>].readable THEN RootFiles ELSE <<>>
    /\ ReportedFiles \cap InSubdirectories = {}

\* a finished run on a fixture project that holds a TypeScript file in src:
\* only the file of the root is scanned
C29_Witness ==
  /\ pc = "done"
  /\ ProjectInFixtures
  /\ Len(files) = 1
  /\ <<"src", "b.ts">> \in DOMAIN contents
  /\ contents[<<"src", "b.ts">>].readable
  /\ tree[<<"src">>].readable
  /\ ".ts" \in ConfiguredExtensions(loaded.config)

\* no element occurs twice in the sequence
NoRepeats(sq) == \A i, j \in 1..Len(sq) : sq[i] = sq[j] => i = j

\* the directory is the project root or a directory entry of its parent
RealDirectory(dir) ==
  \/ dir = <<>>
  \/ LET parent == SubSeq(dir, 1, Len(dir) - 1)
     IN /\ parent \in DOMAIN tree
        /\ \E i \in 1..Len(tree[parent].entries) :
             /\ tree[parent].entries[i].kind = "dir"
             /\ NameStr(tree[parent].entries[i].name) = dir[Len(dir)]

\* the entries of the directories walkDir could read
EntriesOfVisited ==
  UNION {{<<dir, i>> : i \in 1..Len(tree[dir].entries)} :
           dir \in {v \in Range(walk.visited) :
                      v \in DOMAIN tree /\ tree[v].readable}}

\* the walk has visited no directory twice and no entry twice, only real
\* directories, and when it has returned every entry of every directory it
\* read was visited and the list is the one scanFiles returns
WalkVisitsOnce ==
  /\ NoRepeats(walk.visited)
  /\ NoRepeats(walk.seen)
  /\ \A dir \in Range(walk.visited) : RealDirectory(dir)
  /\ (walk.visited # <<>> /\ walk.stack = <<>>) =>
       /\ Range(walk.seen) = EntriesOfVisited
       /\ pc = "scanned" =>
            files = scanFiles(tree, projectPath, loaded.config).value

\* C30: a walk of the project visits each real directory at most once and
\* each entry of a directory it read exactly once, and a validate whose
\* scan has begun the walk goes on to the rule loop and returns the report
C30_ScanTerminates ==
  /\ []WalkVisitsOnce
  /\ (pc = "walking") ~> (pc = "done")

\* a validate has returned whose walk went through several directories of
\* a project with a symbolic link in its root
C30_Witness ==
  /\ pc = "done"
  /\ Len(walk.visited) >= 3
  /\ \E i \in 1..Len(tree[<<>>].entries) : tree[<<>>].entries[i].kind = "other"
  /\ \E dir \in Range(walk.visited) : ~tree[dir].readable
  /\ Len(files) >= 1

====
